---------------------------- MODULE Spec2Model ----------------------------
(***************************************************************************)
(* A model of the stencil pipeline of src/utils/imageProcessor.ts: the     *)
(* sliding-window box blur, the stencil path of generateStencil (luma,     *)
(* detail filter, adaptive threshold / difference of Gaussians,            *)
(* morphology, intermediate raster), its realism path (filter, tone loop,  *)
(* sharpen kernel) in the two forms the repository holds, and the page     *)
(* composer finishProcessing.                                              *)
(*                                                                         *)
(* Numbers.  The code computes in IEEE doubles stored in Float32Arrays.    *)
(* The model computes in exact rationals: a plane is a record              *)
(* [den |-> d, v |-> f] whose pixel i has the value f[i][1] / d.  What the *)
(* model keeps of the floating-point semantics is NaN: reading a typed     *)
(* array outside its bounds yields undefined, undefined added to a number  *)
(* is NaN, NaN is absorbing for + - * / min max, and every comparison with *)
(* NaN is false.  A value is therefore a tuple: <<n>> is the number n/den, *)
(* <<>> is NaN.                                                            *)
(***************************************************************************)
EXTENDS Integers, Sequences, FiniteSets, TLC

VARIABLES
    \* ---- one call of boxBlur (BlurSpec)
    bpc,        \* "call" before the call, "ret" after it, "off" in other specs
    bw, bh,     \* arguments w, h
    bradius,    \* argument radius
    heap,       \* buffer reference -> plane: the Float32Arrays alive
    srcRef,     \* the reference passed as source
    outRef,     \* the reference returned (0 before the call)
    \* ---- one run of the stencil path of generateStencil (Spec)
    pc,             \* the stage the run is about to execute ("off": no run)
    width, height,  \* canvas.width, canvas.height: the working size w, h
    data,           \* imgData.data: pixel index -> <<R, G, B, A>>
    mode,           \* settings.mode
    noiseReduction, \* settings.noiseReduction (the detail level)
    luma,           \* the luma plane
    processedLuma,  \* the detail-filtered plane
    localMean,      \* SOLID: boxBlur(processedLuma, 16)
    blur1, blur2,   \* HOLLOW: the two blurs of the difference of Gaussians
    output,         \* the binarized map: pixel index -> 0 (ink) or 255
    passes,         \* |settings.thickness|
    isDilate,       \* settings.thickness > 0
    safePasses,     \* min(passes, 15)
    p,              \* the morphology loop counter
    bufA, bufB,     \* the two morphology buffers
    finalMap,       \* the map written to the raster
    \* ---- the source image and the settings of the run, never written
    build,          \* whose generateStencil runs: "imageProcessor" or "App"
    img,            \* the source image at the working size
    isMirrored,     \* settings.isMirrored
    contrast,       \* settings.contrast   (optional: <<>> when undefined)
    brightness,     \* settings.brightness (optional)
    saturation,     \* settings.saturation (optional)
    brilliance,     \* settings.brilliance (optional)
    sharpness,      \* settings.sharpness  (optional)
    \* ---- one call of generateStencil seen from the page (PageSpec)
    gpc,                \* the step the call is about to execute
    naturalWidth,       \* img.naturalWidth
    naturalHeight,      \* img.naturalHeight
    workW, workH,       \* w, h: the working size
    ctxAvailable,       \* whether canvas.getContext('2d') gives a context
    finalCtxAvailable,  \* whether finalCanvas.getContext('2d') gives one
    isMultipleSizes,    \* settings.isMultipleSizes
    variantCount,       \* settings.variantCount (<<>> when undefined)
    minSize, maxSize,   \* settings.minSize, settings.maxSize, in inches
    showDimensions,     \* settings.showDimensions
    count,              \* count of the multi-size branch
    gridCols, gridRows, \* cols, rows of the multi-size branch
    vi,                 \* the loop counter i of the multi-size branch
    drawCalls,          \* the arguments of the finalCtx.drawImage calls
    labels,             \* the arguments of the finalCtx.fillText calls
    returned,           \* what the call returned or threw: kind and size
    \* ---- the component App of src/App.tsx (AppSpec)
    images,             \* the state images: the list of ProcessedImage
    selectedId,         \* the state selectedId (NoId when null)
    globalSettings,     \* the state globalSettings
    useGlobalSettings,  \* the state useGlobalSettings
    processingTimeout,  \* processingTimeoutRef: the pending timer, if any
    inFlight,           \* the calls of processImages awaiting Promise.all
    \* ---- history of the component, never read by its handlers
    uploads,            \* how many images were uploaded (their ids: 1..)
    deleted,            \* the ids of the images the user removed
    changes,            \* how many times updateSettingsAndProcess ran
    sinceChange,        \* the time since the last of them, capped
    bursts,             \* how many of them found no timer pending
    fires,              \* how many timer callbacks ran
    started,            \* how many of these called processImages
    submitted,          \* the settings of the last change, if any
    startedWith,        \* the settings of the last call by a timer
    lastDone,           \* the last completed call and the list before it
    failures,           \* how many tasks have thrown
    toggles,            \* how many times the mode was switched
    everPerImage        \* whether settings were changed per image

blurVars == <<bpc, bw, bh, bradius, heap, srcRef, outRef>>

pipeVars == <<pc, width, height, data, mode, noiseReduction, luma, processedLuma,
              localMean, blur1, blur2, output, passes, isDilate, safePasses,
              p, bufA, bufB, finalMap>>

inputVars == <<build, img, isMirrored, contrast, brightness, saturation,
               brilliance, sharpness>>

pageVars == <<gpc, naturalWidth, naturalHeight, workW, workH, ctxAvailable,
              finalCtxAvailable, isMultipleSizes, variantCount, minSize,
              maxSize, showDimensions, count, gridCols, gridRows, vi,
              drawCalls,
              labels, returned>>

appVars == <<images, selectedId, globalSettings, useGlobalSettings,
             processingTimeout, inFlight, uploads, deleted, changes,
             sinceChange, bursts, fires, started, submitted, startedWith,
             lastDone, failures, toggles, everPerImage>>

vars == <<blurVars, pipeVars, inputVars, pageVars, appVars>>

----------------------------------------------------------------------------
(* Values *)

NaN == <<>>

Num(n) == <<n>>

IsNaN(a) == a = NaN

NAdd(a, b) == IF IsNaN(a) \/ IsNaN(b) THEN NaN ELSE <<a[1] + b[1]>>

NSub(a, b) == IF IsNaN(a) \/ IsNaN(b) THEN NaN ELSE <<a[1] - b[1]>>

NScale(k, a) == IF IsNaN(a) THEN NaN ELSE <<k * a[1]>>

Max(a, b) == IF a >= b THEN a ELSE b

Min(a, b) == IF a <= b THEN a ELSE b

\* A typed array filled by a loop: every element is computed once, when the
\* array is filled, and the array then holds the values (comparing the
\* function with itself makes the evaluation compute it in full).
TypedArray(f) == IF f = f THEN f ELSE f

\* buf[idx] of a typed array: undefined (NaN once it is added) out of range.
Read(buf, idx) == IF idx \in DOMAIN buf THEN buf[idx] ELSE NaN

----------------------------------------------------------------------------
(* boxBlur *)

\* The sum of buf[base + i * stride] for i = lo..hi, as the loops
\* "for (i = lo; i <= hi; i++) sum += buf[base + i * stride]" add it up (the
\* range is halved instead of walked, so that the evaluation stays shallow).
RECURSIVE SumReads(_, _, _, _, _)
SumReads(buf, base, stride, lo, hi) ==
    IF lo > hi THEN Num(0)
    ELSE IF lo = hi THEN Read(buf, base + lo * stride)
    ELSE LET mid == (lo + hi) \div 2
         IN NAdd(SumReads(buf, base, stride, lo, mid),
                 SumReads(buf, base, stride, mid + 1, hi))

\* The accumulator before the row loop: radius times the first pixel of the
\* row, then source[rowStart + i] for i = 0..radius (the index is not clamped).
HPrefill(source, rowStart, radius) ==
    NAdd(NScale(radius, Read(source, rowStart)),
         SumReads(source, rowStart, 1, 0, radius))

\* The accumulator before the column loop: radius times temp[x], then
\* temp[x + i * w] for i = 0..radius (the index is not clamped).
VPrefill(temp, w, x, radius) ==
    NAdd(NScale(radius, Read(temp, x)), SumReads(temp, x, w, 0, radius))

\* The body of both sliding loops at position k of a line of n pixels that
\* starts at base and advances by stride: the accumulator after the slide.
SlideStep(buf, base, stride, n, radius, k, sum) ==
    LET leavingIndex == Max(0, k - radius)
        enteringIndex == Min(n - 1, k + radius + 1)
    IN NAdd(NSub(sum, Read(buf, base + leavingIndex * stride)),
            Read(buf, base + enteringIndex * stride))

\* The sliding loop for positions k0..k1 (k0 <= k1), entered with the
\* accumulator sum: << the sums emitted at k0..k1 (the numerators of
\* sum / windowSize), the accumulator after k1 >>.  The range is halved
\* instead of walked.
RECURSIVE Slide(_, _, _, _, _, _, _, _)
Slide(buf, base, stride, n, radius, k0, k1, sum) ==
    IF k0 = k1
    THEN <<<<sum>>, SlideStep(buf, base, stride, n, radius, k0, sum)>>
    ELSE LET mid == (k0 + k1) \div 2
             L == Slide(buf, base, stride, n, radius, k0, mid, sum)
             R == Slide(buf, base, stride, n, radius, mid + 1, k1, L[2])
         IN <<L[1] \o R[1], R[2]>>

\* Horizontal pass: temp, with the values over windowSize times the
\* denominator of source.
HorizontalPass(source, w, h, radius) ==
    LET rows == TypedArray([y \in 0..(h - 1) |->
                    Slide(source, y * w, 1, w, radius, 0, w - 1,
                          HPrefill(source, y * w, radius))[1]])
    IN TypedArray([i \in 0..(w * h - 1) |-> rows[i \div w][(i % w) + 1]])

\* Vertical pass: target, over windowSize times the denominator of temp.
VerticalPass(temp, w, h, radius) ==
    LET cols == TypedArray([x \in 0..(w - 1) |->
                    Slide(temp, x, w, h, radius, 0, h - 1,
                          VPrefill(temp, w, x, radius))[1]])
    IN TypedArray([i \in 0..(w * h - 1) |-> cols[i % w][(i \div w) + 1]])

\* The mutant of BoxBlur that blurs with radius 1 where the code copies.
BoxBlurNoEarlyReturn(source, w, h, radius) ==
    LET r == Max(1, radius)
        windowSize == r * 2 + 1
    IN [den |-> source.den * windowSize * windowSize,
        v |-> VerticalPass(HorizontalPass(source.v, w, h, r), w, h, r)]

\* boxBlur(source, w, h, radius): the plane it returns.
BoxBlur(source, w, h, radius) ==
    IF radius < 1 THEN source
    ELSE LET windowSize == radius * 2 + 1
         IN [den |-> source.den * windowSize * windowSize,
             v |-> VerticalPass(HorizontalPass(source.v, w, h, radius),
                                w, h, radius)]

\* The buffer boxBlur returns: a new Float32Array on both paths.
BoxBlurRef(source, radius, fresh) == fresh

----------------------------------------------------------------------------
(* The stencil path of generateStencil: pure stages *)

RECURSIVE GCD(_, _)
GCD(a, b) == IF b = 0 THEN a ELSE GCD(b, a % b)

Abs(a) == IF a < 0 THEN 0 - a ELSE a

\* A plane that is not allocated (yet, or any more).
NoPlane == [den |-> 1, v |-> <<>>]

Pixels(w, h) == 0..(w * h - 1)

\* Rec. 601 luma of one pixel, in thousandths.
Luma601(px) == 299 * px[1] + 587 * px[2] + 114 * px[3]

\* The greatest common divisor of g and the numbers of the finite set S.
RECURSIVE GcdOf(_, _)
GcdOf(S, g) ==
    IF S = {} THEN g
    ELSE LET n == CHOOSE n \in S : TRUE IN GcdOf(S \ {n}, GCD(g, n))

\* Step 2: the luma plane of a raster.  The values are thousandths, reduced
\* by the common factor of 1000 and every value (a change of representation).
LumaPlane(raster) ==
    LET g == GcdOf({Luma601(raster[i]) : i \in DOMAIN raster}, 1000)
    IN [den |-> 1000 \div g,
        v |-> TypedArray([i \in DOMAIN raster |->
                             Num(Luma601(raster[i]) \div g)])]

\* Math.min(hi, Math.max(lo, a)); NaN stays NaN.
NClamp(a, lo, hi) == IF IsNaN(a) THEN NaN ELSE <<Min(hi, Max(lo, a[1]))>>

\* The unsharp mask of the detail filter (noiseReduction < 0):
\* luma + (luma - blurForSharpen) * strength, strength = |noiseReduction| / 2,
\* clamped to [0, 255].  blurForSharpen is over 9 times the denominator of
\* the luma; the result is over 18 times it.
Unsharp(lum, w, h, nr) ==
    LET blurForSharpen == BoxBlur(lum, w, h, 1)
        k == blurForSharpen.den \div lum.den
        d == 2 * blurForSharpen.den
    IN [den |-> d,
        v |-> TypedArray([i \in Pixels(w, h) |->
                 LET detail == NSub(NScale(k, lum.v[i]), blurForSharpen.v[i])
                     val == NAdd(NScale(2 * k, lum.v[i]),
                                 NScale(Abs(nr), detail))
                 IN NClamp(val, 0, 255 * d)])]

\* Step 3: the plane the binarization reads.
DetailFilter(lum, w, h, md, nr) ==
    IF nr < 0 THEN Unsharp(lum, w, h, nr)
    ELSE IF nr > 0 /\ md = "SOLID" THEN BoxBlur(lum, w, h, nr)
    ELSE lum

\* The mutant of IsInkSolid whose bias is threshold / 5: it grows with the
\* threshold.
IsInkSolidGrowingBias(pl, lm, dp, dm, threshold) ==
    /\ ~IsNaN(pl)
    /\ ~IsNaN(lm)
    /\ 5 * (dm \div dp) * pl[1] < 5 * lm[1] - threshold * dm

\* The mutant of IsInkSolid that compares with <= instead of <.
IsInkSolidNotStrict(pl, lm, dp, dm, threshold) ==
    /\ ~IsNaN(pl)
    /\ ~IsNaN(lm)
    /\ 5 * (dm \div dp) * pl[1] <= 5 * lm[1] - (255 - threshold) * dm

\* processedLuma[i] < localMean[i] - bias, bias = (255 - threshold) / 5, for
\* the values pl / dp and lm / dm (dm is a multiple of dp), both sides
\* multiplied by 5 * dm.
IsInkSolid(pl, lm, dp, dm, threshold) ==
    /\ ~IsNaN(pl)
    /\ ~IsNaN(lm)
    /\ 5 * (dm \div dp) * pl[1] < 5 * lm[1] - (255 - threshold) * dm

\* The mutant of AdaptiveThreshold that writes 1 for a blank pixel.
AdaptiveThresholdOne(pl, lm, w, h, threshold) ==
    TypedArray([i \in Pixels(w, h) |->
        IF IsInkSolid(pl.v[i], lm.v[i], pl.den, lm.den, threshold)
        THEN 0 ELSE 1])

\* The SOLID loop over the pixels.
AdaptiveThreshold(pl, lm, w, h, threshold) ==
    TypedArray([i \in Pixels(w, h) |->
        IF IsInkSolid(pl.v[i], lm.v[i], pl.den, lm.den, threshold)
        THEN 0 ELSE 255])

\* Math.ceil(r1) and Math.ceil(r2) for effectiveBlur = max(0, noiseReduction),
\* r1 = max(0.5, effectiveBlur * 0.8), r2 = r1 * 2.5, as IEEE doubles give
\* them: 3 * 0.8 is 2.4000000000000004 and r2 is then 6.000000000000001.
Radius1(nr) ==
    CASE nr <= 1 -> 1 [] nr = 2 -> 2 [] nr = 3 -> 3 [] nr = 4 -> 4 [] OTHER -> 4

Radius2(nr) ==
    CASE nr <= 1 -> 2 [] nr = 2 -> 4 [] nr = 3 -> 7 [] nr = 4 -> 8 [] OTHER -> 10

\* blur1[i] - blur2[i] < -cutoff, cutoff = 2 + 10 * (255 - threshold) / 255,
\* for the values b1 / d1 and b2 / d2, both sides multiplied by
\* 255 * d1 * d2 / gcd(d1, d2).
IsInkHollow(b1, b2, d1, d2, threshold) ==
    LET g == GCD(d1, d2)
        e1 == d1 \div g
        e2 == d2 \div g
    IN /\ ~IsNaN(b1)
       /\ ~IsNaN(b2)
       /\ 255 * (b1[1] * e2 - b2[1] * e1)
            < 0 - (2 * 255 + 10 * (255 - threshold)) * e1 * e2 * g

\* The HOLLOW loop over the pixels.
DifferenceOfGaussians(b1, b2, w, h, threshold) ==
    TypedArray([i \in Pixels(w, h) |->
        IF IsInkHollow(b1.v[i], b2.v[i], b1.den, b2.den, threshold)
        THEN 0 ELSE 255])

\* The mutant of DilatePixel that does not look at the west neighbour.
DilatePixelWithoutWest(src, w, h, idx) ==
    LET x == idx % w
        y == idx \div w
        val == src[idx]
    IN IF val > 128
       THEN LET n == IF y > 0 THEN src[idx - w] ELSE 255
                s == IF y < h - 1 THEN src[idx + w] ELSE 255
                e_pix == IF x < w - 1 THEN src[idx + 1] ELSE 255
            IN IF n < 128 \/ s < 128 \/ e_pix < 128
               THEN 0 ELSE 255
       ELSE 0

\* The mutant of DilatePixel that takes the pixels outside the image for ink.
DilatePixelInkBorder(src, w, h, idx) ==
    LET x == idx % w
        y == idx \div w
        val == src[idx]
    IN IF val > 128
       THEN LET n == IF y > 0 THEN src[idx - w] ELSE 0
                s == IF y < h - 1 THEN src[idx + w] ELSE 0
                w_pix == IF x > 0 THEN src[idx - 1] ELSE 0
                e_pix == IF x < w - 1 THEN src[idx + 1] ELSE 0
            IN IF n < 128 \/ s < 128 \/ w_pix < 128 \/ e_pix < 128
               THEN 0 ELSE 255
       ELSE 0

\* One pixel of a dilation pass.  src is the buffer the pass reads.
DilatePixel(src, w, h, idx) ==
    LET x == idx % w
        y == idx \div w
        val == src[idx]
    IN IF val > 128
       THEN LET n == IF y > 0 THEN src[idx - w] ELSE 255
                s == IF y < h - 1 THEN src[idx + w] ELSE 255
                w_pix == IF x > 0 THEN src[idx - 1] ELSE 255
                e_pix == IF x < w - 1 THEN src[idx + 1] ELSE 255
            IN IF n < 128 \/ s < 128 \/ w_pix < 128 \/ e_pix < 128
               THEN 0 ELSE 255
       ELSE 0

\* The mutant of ErodePixel that does not look at the north neighbour.
ErodePixelWithoutNorth(src, w, h, idx) ==
    LET x == idx % w
        y == idx \div w
        val == src[idx]
    IN IF val < 128
       THEN LET s == IF y < h - 1 THEN src[idx + w] ELSE 0
                w_pix == IF x > 0 THEN src[idx - 1] ELSE 0
                e_pix == IF x < w - 1 THEN src[idx + 1] ELSE 0
            IN IF s > 128 \/ w_pix > 128 \/ e_pix > 128
               THEN 255 ELSE 0
       ELSE 255

\* The mutant of ErodePixel that takes the pixels outside the image for
\* blank.
ErodePixelBlankBorder(src, w, h, idx) ==
    LET x == idx % w
        y == idx \div w
        val == src[idx]
    IN IF val < 128
       THEN LET n == IF y > 0 THEN src[idx - w] ELSE 255
                s == IF y < h - 1 THEN src[idx + w] ELSE 255
                w_pix == IF x > 0 THEN src[idx - 1] ELSE 255
                e_pix == IF x < w - 1 THEN src[idx + 1] ELSE 255
            IN IF n > 128 \/ s > 128 \/ w_pix > 128 \/ e_pix > 128
               THEN 255 ELSE 0
       ELSE 255

\* One pixel of an erosion pass.
ErodePixel(src, w, h, idx) ==
    LET x == idx % w
        y == idx \div w
        val == src[idx]
    IN IF val < 128
       THEN LET n == IF y > 0 THEN src[idx - w] ELSE 0
                s == IF y < h - 1 THEN src[idx + w] ELSE 0
                w_pix == IF x > 0 THEN src[idx - 1] ELSE 0
                e_pix == IF x < w - 1 THEN src[idx + 1] ELSE 0
            IN IF n > 128 \/ s > 128 \/ w_pix > 128 \/ e_pix > 128
               THEN 255 ELSE 0
       ELSE 255

\* One pass of the morphology loop: the buffer dst after the pass.
MorphPass(src, w, h, dilate) ==
    TypedArray([idx \in Pixels(w, h) |->
        IF dilate THEN DilatePixel(src, w, h, idx)
        ELSE ErodePixel(src, w, h, idx)])

\* The mutant of SafePasses without the cap.
SafePassesNoCap(n) == n

\* safePasses = Math.min(passes, 15)
SafePasses(n) == Min(n, 15)

\* The morphology loop from pass q on, on the buffers a (bufA) and b (bufB):
\* the pair of buffers after pass n - 1.
RECURSIVE MorphLoop(_, _, _, _, _, _, _)
MorphLoop(a, b, w, h, dilate, q, n) ==
    IF q >= n THEN <<a, b>>
    ELSE IF q % 2 = 0
         THEN MorphLoop(a, MorphPass(a, w, h, dilate), w, h, dilate, q + 1, n)
         ELSE MorphLoop(MorphPass(b, w, h, dilate), b, w, h, dilate, q + 1, n)

\* Step 5 as a function: finalMap for a binarized map and a thickness.
Morphology(map, w, h, thickness) ==
    IF thickness = 0 THEN map
    ELSE LET n == SafePasses(Abs(thickness))
             bufs == MorphLoop(map, [i \in Pixels(w, h) |-> 0], w, h,
                               thickness > 0, 0, n)
         IN IF n % 2 = 0 THEN bufs[1] ELSE bufs[2]

\* A Float32 value stored in a Uint8ClampedArray (0 and 255 are kept).
ToUint8Clamped(val) == Min(255, Max(0, val))

----------------------------------------------------------------------------
(* Fractions: the numbers of the realism path and of the page composer *)

\* The fraction n / d in lowest terms, d > 0, as << numerator, denominator >>.
Frac(n, d) ==
    LET g == GCD(Abs(n), Abs(d))
        sgn == IF d < 0 THEN 0 - 1 ELSE 1
    IN <<sgn * (n \div g), sgn * (d \div g)>>

FInt(n) == <<n, 1>>

FAdd(a, b) ==
    LET g == GCD(a[2], b[2])
    IN Frac(a[1] * (b[2] \div g) + b[1] * (a[2] \div g), (a[2] \div g) * b[2])

FNeg(a) == <<0 - a[1], a[2]>>

FSub(a, b) == FAdd(a, FNeg(b))

FMul(a, b) ==
    LET g1 == GCD(Abs(a[1]), b[2])
        g2 == GCD(Abs(b[1]), a[2])
    IN Frac((a[1] \div g1) * (b[1] \div g2), (a[2] \div g2) * (b[2] \div g1))

\* a / b for b # 0.
FDiv(a, b) == FMul(a, Frac(b[2], b[1]))

FLess(a, b) ==
    LET g == GCD(a[2], b[2])
    IN a[1] * (b[2] \div g) < b[1] * (a[2] \div g)

FLeq(a, b) == ~FLess(b, a)

FMax(a, b) == IF FLess(a, b) THEN b ELSE a

FMin(a, b) == IF FLess(b, a) THEN b ELSE a

\* Math.floor of a fraction.
FFloor(a) ==
    IF a[1] >= 0 THEN a[1] \div a[2]
    ELSE 0 - ((0 - a[1] + a[2] - 1) \div a[2])

\* Math.round of a fraction: the nearest integer, halves upwards.
FRound(a) == FFloor(FAdd(a, <<1, 2>>))

\* A number stored in a Uint8ClampedArray: clamped to [0, 255] and rounded
\* to the nearest integer, halves to the even one.
StoreUint8(a) ==
    LET c == FMax(FInt(0), FMin(FInt(255), a))
        lo == FFloor(c)
        rest == FSub(c, FInt(lo))
    IN IF FLess(rest, <<1, 2>>) THEN lo
       ELSE IF FLess(<<1, 2>>, rest) THEN lo + 1
       ELSE IF lo % 2 = 0 THEN lo ELSE lo + 1

----------------------------------------------------------------------------
(* The realism path of generateStencil: pure stages *)

\* An optional setting: <<>> when the field is undefined, <<value>> otherwise.
Undefined == <<>>

\* settings.field !== undefined ? settings.field : dflt
OrDefault(field, dflt) == IF field = Undefined THEN dflt ELSE field[1]

\* The raster drawn with ctx.translate(w, 0) and ctx.scale(-1, 1): column x
\* shows column w - 1 - x of the image.
FlipHorizontal(raster, w, h) ==
    [i \in Pixels(w, h) |-> raster[(i \div w) * w + (w - 1 - (i % w))]]

\* One colour channel under ctx.filter = "contrast(c%) brightness(b%)", as the
\* filter functions are defined: contrast is the linear transfer of slope
\* c / 100 around 1/2, brightness the linear transfer of slope b / 100, each
\* clamped to [0, 1]; the result is stored as the nearest byte.
FilterChannel(val, c, b) ==
    LET unit == Frac(val, 255)
        contrasted == FAdd(FMul(FSub(unit, <<1, 2>>), Frac(c, 100)), <<1, 2>>)
        c01 == FMax(FInt(0), FMin(FInt(1), contrasted))
        b01 == FMax(FInt(0), FMin(FInt(1), FMul(c01, Frac(b, 100))))
    IN FRound(FMul(FInt(255), b01))

\* The canvas after drawImage: the image, mirrored when settings.isMirrored,
\* through the filter in REALISM mode.
DrawImage(image, w, h, md, mirrored, c, b) ==
    LET placed == IF mirrored THEN FlipHorizontal(image, w, h) ELSE image
    IN IF md = "REALISM"
       THEN TypedArray([i \in Pixels(w, h) |->
               <<FilterChannel(placed[i][1], OrDefault(c, 100), OrDefault(b, 100)),
                 FilterChannel(placed[i][2], OrDefault(c, 100), OrDefault(b, 100)),
                 FilterChannel(placed[i][3], OrDefault(c, 100), OrDefault(b, 100)),
                 placed[i][4]>>])
       ELSE TypedArray(placed)

Max3(a, b, c) == Max(a, Max(b, c))

Min3(a, b, c) == Min(a, Min(b, c))

\* One pixel of the vibrance loop (imageProcessor.ts): the pixel stored back.
VibrancePixel(px, saturationSetting) ==
    LET strength == Frac(saturationSetting - 100, 100)
        max == Max3(px[1], px[2], px[3])
        min == Min3(px[1], px[2], px[3])
        range == max - min
        sat == IF max = 0 THEN FInt(0) ELSE Frac(range, max)
        boost == IF FLeq(FInt(0), strength)
                 THEN FMul(strength, FSub(FInt(1), FMul(sat, sat)))
                 ELSE strength
        gray == Frac(299 * px[1] + 587 * px[2] + 114 * px[3], 1000)
        Toned(ch) == FAdd(gray, FMul(FSub(FInt(ch), gray), FAdd(FInt(1), boost)))
        contrastBoost == FAdd(Frac(105, 100), FMul(strength, Frac(2, 100)))
        Popped(val) ==
            IF FLess(FInt(0), strength)
            THEN FAdd(FMul(FSub(val, FInt(128)), contrastBoost), FInt(128))
            ELSE val
    IN <<StoreUint8(Popped(Toned(px[1]))),
         StoreUint8(Popped(Toned(px[2]))),
         StoreUint8(Popped(Toned(px[3]))),
         px[4]>>

\* a to the power n, n >= 0 (Math.pow with a natural exponent).
RECURSIVE FPow(_, _)
FPow(a, n) == IF n = 0 THEN FInt(1) ELSE FMul(a, FPow(a, n - 1))

\* One pixel of the brilliance loop (the realism path of App.tsx): the pixel
\* stored back.  The sigmoid of line 799 is computed and never used.
BrilliancePixel(px, bril) ==
    LET strength == Frac(bril, 100)
        y == Frac(299 * px[1] + 587 * px[2] + 114 * px[3], 255000)
        shadowLift == FMul(FPow(FSub(FInt(1), y), 5), strength)
        highlightDamp == FMul(FMul(FPow(y, 4), Frac(4, 10)), strength)
        lifted == FSub(FAdd(y, shadowLift), highlightDamp)
        contrastFactor == FAdd(FInt(1), FMul(strength, <<1, 2>>))
        contrasted == FAdd(FMul(FSub(lifted, <<1, 2>>), contrastFactor), <<1, 2>>)
        newY == IF FLess(FInt(0), strength)
                THEN FMax(FInt(0), FMin(FInt(1), contrasted))
                ELSE FMul(y, FAdd(FInt(1), FMul(strength, <<1, 2>>)))
        scale == FDiv(newY, y)
    IN IF FLess(Frac(1, 1000), y)
       THEN <<StoreUint8(FMul(FInt(px[1]), scale)),
              StoreUint8(FMul(FInt(px[2]), scale)),
              StoreUint8(FMul(FInt(px[3]), scale)),
              px[4]>>
       ELSE px

\* An undefined saturation taken as 0 instead of 100.
SaturationSettingZero(sat) == OrDefault(sat, 0)

\* settings.saturation !== undefined ? settings.saturation : 100
SaturationSetting(sat) == OrDefault(sat, 100)

\* The tone stage of the realism path: the vibrance loop of imageProcessor.ts
\* (skipped when the saturation setting is 100, its default) or the
\* brilliance loop of App.tsx (skipped when brilliance is 0 or undefined).
ToneStage(raster, which, sat, bril) ==
    IF which = "imageProcessor"
    THEN IF SaturationSetting(sat) # 100
         THEN TypedArray([i \in DOMAIN raster |->
                             VibrancePixel(raster[i], SaturationSetting(sat))])
         ELSE raster
    ELSE IF OrDefault(bril, 0) # 0
         THEN TypedArray([i \in DOMAIN raster |->
                             BrilliancePixel(raster[i], OrDefault(bril, 0))])
         ELSE raster

\* Math.round(Math.sqrt(n)) for a kernel of n weights.
KernelSide(n) == CHOOSE s \in 0..n : (2 * s - 1) * (2 * s - 1) <= 4 * n
                                     /\ 4 * n < (2 * s + 1) * (2 * s + 1)

\* The weighted sum of one channel around pixel (x, y), weights k..Len(matrix)
\* of the kernel: a tap outside the raster is skipped.
RECURSIVE TapSum(_, _, _, _, _, _, _, _)
TapSum(src, w, h, matrix, x, y, ch, k) ==
    IF k > Len(matrix) THEN 0
    ELSE LET side == KernelSide(Len(matrix))
             half == side \div 2
             scy == y + ((k - 1) \div side) - half
             scx == x + ((k - 1) % side) - half
             term == IF scy >= 0 /\ scy < h /\ scx >= 0 /\ scx < w
                     THEN src[scy * w + scx][ch] * matrix[k]
                     ELSE 0
         IN term + TapSum(src, w, h, matrix, x, y, ch, k + 1)

\* convolve: every pixel's R, G and B replaced by the clamped weighted sum
\* over a copy of the raster; alpha is left as it was.
Convolve(raster, w, h, matrix) ==
    TypedArray([i \in Pixels(w, h) |->
        <<ToUint8Clamped(TapSum(raster, w, h, matrix, i % w, i \div w, 1, 1)),
          ToUint8Clamped(TapSum(raster, w, h, matrix, i % w, i \div w, 2, 1)),
          ToUint8Clamped(TapSum(raster, w, h, matrix, i % w, i \div w, 3, 1)),
          raster[i][4]>>])

\* The kernel built from settings.sharpness.
SharpenKernel(s) == <<0, 0 - s, 0, 0 - s, 4 * s + 1, 0 - s, 0, 0 - s, 0>>

\* The sharpen stage: settings.sharpness && settings.sharpness > 0.
SharpenStage(raster, w, h, sharp) ==
    IF sharp # Undefined /\ sharp[1] > 0
    THEN Convolve(raster, w, h, SharpenKernel(sharp[1]))
    ELSE raster

\* settings.mode === StencilMode.REALISM, the test of the early return.
IsRealismNever(md) == FALSE

IsRealism(md) == md = "REALISM"

----------------------------------------------------------------------------
(* Spec: one run of the stencil path, stage by stage *)

MaxW == 3
MaxH == 3
StripLen == 18
TallLen == 50
BigSide == 17
RunLen == 17
Dark == 60
Light == 200
MaxThreshold == 255

\* The sizes of the working raster: every small size, a strip longer than
\* the morphology cap, a column tall enough for the radius-16 blur to read
\* inside the buffer, and a square wider than that radius.
Sizes ==
    ((1..MaxW) \X (1..MaxH))
        \cup {<<1, StripLen>>, <<1, TallLen>>, <<BigSide, BigSide>>}

\* The sets of dark pixels of the images: none, the first pixel, the two
\* neighbours of the first pixel, and a run of RunLen pixels from the first
\* pixel on (the whole image when it is smaller).
DarkSets(w0, h0) ==
    {{}, {0}, {1, w0} \cap Pixels(w0, h0), 0..(Min(w0 * h0, RunLen) - 1)}

\* An opaque gray image: the pixels of dark at level Dark, the others at
\* level Light.
GrayRaster(w0, h0, dark) ==
    [i \in Pixels(w0, h0) |->
        LET g == IF i \in dark THEN Dark ELSE Light IN <<g, g, g, 255>>]

Modes == {"SOLID", "HOLLOW"}

\* The rasters of the realism runs: one colour everywhere, a different colour
\* and opacity at every pixel, and grays at the fifths of the scale.
UniformRaster(w0, h0) == [i \in Pixels(w0, h0) |-> <<200, 100, 100, 77>>]

ColourRaster(w0, h0) ==
    [i \in Pixels(w0, h0) |->
        <<(40 * i + 10) % 256, (200 + 230 * i) % 256, (7 * i * i) % 256,
          255 - i>>]

FifthsRaster(w0, h0) ==
    [i \in Pixels(w0, h0) |->
        LET g == 51 * (i % 6) IN <<g, g, g, 255>>]

RealismSizes == {<<1, 1>>, <<2, 1>>, <<MaxW, MaxH>>}

\* contrast and brightness of the settings.
Filters ==
    {<<Undefined, Undefined>>, <<<<100>>, <<100>>>>, <<<<150>>, <<80>>>>}

\* saturation and brilliance of the settings.
Tones ==
    {<<Undefined, Undefined>>, <<<<100>>, <<0>>>>, <<<<0>>, <<0 - 50>>>>,
     <<<<150>>, <<50>>>>}

Sharpnesses == {Undefined, <<0>>, <<1>>, <<10>>}

RealismDetailLevels == {0 - 4, 5}

\* The tone loops compute in fractions whose terms grow with the strength
\* when it is positive (a saturation above 100, a brilliance above 0): those
\* runs take unfiltered rasters of colours with short fractions, the grays
\* at the fifths and, for the vibrance loop, the half-saturated uniform one.
SmallPowers(which, image, w0, h0, filter, tone) ==
    LET positive == IF which = "App" THEN OrDefault(tone[2], 0) > 0
                    ELSE OrDefault(tone[1], 100) > 100
    IN positive
        => /\ OrDefault(filter[1], 100) = 100
           /\ OrDefault(filter[2], 100) = 100
           /\ \/ image = FifthsRaster(w0, h0)
              \/ which # "App" /\ image = UniformRaster(w0, h0)

DetailLevels == (0 - 4)..5

Thicknesses == {0 - 16, 0 - 2, 0, 1, 20}

ZeroMap(w0, h0) == [i \in Pixels(w0, h0) |-> 0]

PipeOff ==
    /\ pc = "off"
    /\ width = 0
    /\ height = 0
    /\ data = <<>>
    /\ mode = "SOLID"
    /\ noiseReduction = 0
    /\ luma = NoPlane
    /\ processedLuma = NoPlane
    /\ localMean = NoPlane
    /\ blur1 = NoPlane
    /\ blur2 = NoPlane
    /\ output = <<>>
    /\ passes = 0
    /\ isDilate = FALSE
    /\ safePasses = 0
    /\ p = 0
    /\ bufA = <<>>
    /\ bufB = <<>>
    /\ finalMap = <<>>
    /\ build = "imageProcessor"
    /\ img = <<>>
    /\ isMirrored = FALSE
    /\ contrast = Undefined
    /\ brightness = Undefined
    /\ saturation = Undefined
    /\ brilliance = Undefined
    /\ sharpness = Undefined

PageOff ==
    /\ gpc = "off"
    /\ naturalWidth = 0
    /\ naturalHeight = 0
    /\ workW = 0
    /\ workH = 0
    /\ ctxAvailable = TRUE
    /\ finalCtxAvailable = TRUE
    /\ isMultipleSizes = FALSE
    /\ variantCount = <<9>>
    /\ minSize = <<3, 2>>
    /\ maxSize = <<7, 2>>
    /\ showDimensions = TRUE
    /\ count = 0
    /\ gridCols = 0
    /\ gridRows = 0
    /\ vi = 0
    /\ drawCalls = <<>>
    /\ labels = <<>>
    /\ returned = [kind |-> "none", w |-> 0, h |-> 0]

\* The value of selectedId when no image is selected (null).
NoId == 0

\* The value of processedUrl before the first result (null).
NoUrl == <<>>

\* The settings, reduced to one of their keys.
DEFAULT_SETTINGS == [threshold |-> 223]

\* The component after its first render: no image, the default settings,
\* global-settings mode, no timer, no call of processImages in flight.
AppMounted ==
    /\ images = <<>>
    /\ selectedId = NoId
    /\ globalSettings = DEFAULT_SETTINGS
    /\ useGlobalSettings = TRUE
    /\ processingTimeout = <<>>
    /\ inFlight = <<>>
    /\ uploads = 0
    /\ deleted = {}
    /\ changes = 0
    /\ sinceChange = 0
    /\ bursts = 0
    /\ fires = 0
    /\ started = 0
    /\ submitted = <<>>
    /\ startedWith = <<>>
    /\ lastDone = <<>>
    /\ failures = 0
    /\ toggles = 0
    /\ everPerImage = FALSE

BlurOff ==
    /\ bpc = "off"
    /\ bw = 0
    /\ bh = 0
    /\ bradius = 0
    /\ heap = <<>>
    /\ srcRef = 0
    /\ outRef = 0

\* A stencil run: a gray source image, drawn as it is.
StencilInputs ==
    /\ \E sz \in Sizes :
        /\ width = sz[1]
        /\ height = sz[2]
        /\ \E dark \in DarkSets(sz[1], sz[2]) :
              img = GrayRaster(sz[1], sz[2], dark)
    /\ mode \in Modes
    /\ noiseReduction \in DetailLevels
    /\ build = "imageProcessor"
    /\ isMirrored = FALSE
    /\ contrast = Undefined
    /\ brightness = Undefined
    /\ saturation = Undefined
    /\ brilliance = Undefined
    /\ sharpness = Undefined

\* A realism run of either generateStencil.
RealismInputs ==
    /\ mode = "REALISM"
    /\ build \in {"imageProcessor", "App"}
    /\ isMirrored \in BOOLEAN
    /\ noiseReduction \in RealismDetailLevels
    /\ sharpness \in Sharpnesses
    /\ \E sz \in RealismSizes, filter \in Filters, tone \in Tones :
        /\ width = sz[1]
        /\ height = sz[2]
        /\ img \in {UniformRaster(sz[1], sz[2]), ColourRaster(sz[1], sz[2]),
                    FifthsRaster(sz[1], sz[2])}
        /\ contrast = filter[1]
        /\ brightness = filter[2]
        /\ saturation = tone[1]
        /\ brilliance = tone[2]
        /\ SmallPowers(build, img, sz[1], sz[2], filter, tone)

\* The state before drawImage (line 142): the canvas has the working size.
Init ==
    /\ BlurOff
    /\ PageOff
    /\ AppMounted
    /\ pc = "draw"
    /\ StencilInputs \/ RealismInputs
    /\ data = <<>>
    /\ luma = NoPlane
    /\ processedLuma = NoPlane
    /\ localMean = NoPlane
    /\ blur1 = NoPlane
    /\ blur2 = NoPlane
    /\ output = <<>>
    /\ passes = 0
    /\ isDilate = FALSE
    /\ safePasses = 0
    /\ p = 0
    /\ bufA = <<>>
    /\ bufB = <<>>
    /\ finalMap = <<>>

\* Lines 142-149: the image drawn and read back, and the branch on the mode.
DrawSource ==
    /\ pc = "draw"
    /\ data' = DrawImage(img, width, height, mode, isMirrored, contrast,
                         brightness)
    /\ pc' = IF IsRealism(mode) THEN "tone" ELSE "luma"
    /\ UNCHANGED <<width, height, mode, noiseReduction, luma, processedLuma,
                   localMean, blur1, blur2, output, passes, isDilate,
                   safePasses, p, bufA, bufB, finalMap>>

\* Lines 151-209 of imageProcessor.ts, lines 771-828 of App.tsx.
RealismTone ==
    /\ pc = "tone"
    /\ data' = ToneStage(data, build, saturation, brilliance)
    /\ pc' = "sharpen"
    /\ UNCHANGED <<width, height, mode, noiseReduction, luma, processedLuma,
                   localMean, blur1, blur2, output, passes, isDilate,
                   safePasses, p, bufA, bufB, finalMap>>

\* Lines 212-233: the sharpen kernel, putImageData and the early return.
RealismSharpen ==
    /\ pc = "sharpen"
    /\ data' = SharpenStage(data, width, height, sharpness)
    /\ pc' = "done"
    /\ UNCHANGED <<width, height, mode, noiseReduction, luma, processedLuma,
                   localMean, blur1, blur2, output, passes, isDilate,
                   safePasses, p, bufA, bufB, finalMap>>

\* Lines 237-243: luma and the zero-filled output.
ExtractLuma ==
    /\ pc = "luma"
    /\ luma' = LumaPlane(data)
    /\ output' = ZeroMap(width, height)
    /\ pc' = "detail"
    /\ UNCHANGED <<width, height, data, mode, noiseReduction, processedLuma,
                   localMean, blur1, blur2, passes, isDilate, safePasses, p,
                   bufA, bufB, finalMap>>

\* Lines 249-271.
ApplyDetailFilter ==
    /\ pc = "detail"
    /\ processedLuma' = DetailFilter(luma, width, height, mode, noiseReduction)
    /\ pc' = "blur"
    /\ UNCHANGED <<width, height, data, mode, noiseReduction, luma, localMean,
                   blur1, blur2, output, passes, isDilate, safePasses, p,
                   bufA, bufB, finalMap>>

\* Line 279.
ComputeLocalMean ==
    /\ pc = "blur"
    /\ mode = "SOLID"
    /\ localMean' = BoxBlur(processedLuma, width, height, 16)
    /\ pc' = "threshold"
    /\ UNCHANGED <<width, height, data, mode, noiseReduction, luma,
                   processedLuma, blur1, blur2, output, passes, isDilate,
                   safePasses, p, bufA, bufB, finalMap>>

\* Lines 299-308.
ComputeDoGBlurs ==
    /\ pc = "blur"
    /\ mode # "SOLID"
    /\ blur1' = BoxBlur(processedLuma, width, height, Radius1(noiseReduction))
    /\ blur2' = BoxBlur(processedLuma, width, height, Radius2(noiseReduction))
    /\ pc' = "threshold"
    /\ UNCHANGED <<width, height, data, mode, noiseReduction, luma,
                   processedLuma, localMean, output, passes, isDilate,
                   safePasses, p, bufA, bufB, finalMap>>

\* Lines 282-290, for the threshold of the settings.
ThresholdSolid ==
    /\ pc = "threshold"
    /\ mode = "SOLID"
    /\ \E threshold \in 0..MaxThreshold :
          output' = AdaptiveThreshold(processedLuma, localMean, width, height,
                                      threshold)
    /\ pc' = "morph"
    /\ UNCHANGED <<width, height, data, mode, noiseReduction, luma,
                   processedLuma, localMean, blur1, blur2, passes, isDilate,
                   safePasses, p, bufA, bufB, finalMap>>

\* Lines 310-320, for the threshold of the settings.
ThresholdHollow ==
    /\ pc = "threshold"
    /\ mode # "SOLID"
    /\ \E threshold \in 0..MaxThreshold :
          output' = DifferenceOfGaussians(blur1, blur2, width, height,
                                          threshold)
    /\ pc' = "morph"
    /\ UNCHANGED <<width, height, data, mode, noiseReduction, luma,
                   processedLuma, localMean, blur1, blur2, passes, isDilate,
                   safePasses, p, bufA, bufB, finalMap>>

\* Lines 324-332, for the thickness of the settings.
MorphSetup ==
    /\ pc = "morph"
    /\ \E thickness \in Thicknesses :
          IF thickness # 0
          THEN /\ passes' = Abs(thickness)
               /\ isDilate' = (thickness > 0)
               /\ bufA' = output
               /\ bufB' = ZeroMap(width, height)
               /\ safePasses' = SafePasses(Abs(thickness))
               /\ p' = 0
               /\ finalMap' = output
               /\ pc' = "pass"
          ELSE /\ finalMap' = output
               /\ pc' = "raster"
               /\ UNCHANGED <<passes, isDilate, bufA, bufB, safePasses, p>>
    /\ UNCHANGED <<width, height, data, mode, noiseReduction, luma,
                   processedLuma, localMean, blur1, blur2, output>>

\* Lines 334-376: one iteration of the loop over p.
MorphologyPass ==
    /\ pc = "pass"
    /\ p < safePasses
    /\ IF p % 2 = 0
       THEN /\ bufB' = MorphPass(bufA, width, height, isDilate)
            /\ bufA' = bufA
       ELSE /\ bufA' = MorphPass(bufB, width, height, isDilate)
            /\ bufB' = bufB
    /\ p' = p + 1
    /\ UNCHANGED <<pc, width, height, data, mode, noiseReduction, luma,
                   processedLuma, localMean, blur1, blur2, output, passes,
                   isDilate, safePasses, finalMap>>

\* The mutant of MorphologyEnd that always takes bufA for the final map.
MorphologyEndAlwaysA ==
    /\ pc = "pass"
    /\ p >= safePasses
    /\ finalMap' = bufA
    /\ pc' = "raster"
    /\ UNCHANGED <<width, height, data, mode, noiseReduction, luma,
                   processedLuma, localMean, blur1, blur2, output, passes,
                   isDilate, safePasses, p, bufA, bufB>>

\* Line 377: the loop is over.
MorphologyEnd ==
    /\ pc = "pass"
    /\ p >= safePasses
    /\ finalMap' = IF safePasses % 2 = 0 THEN bufA ELSE bufB
    /\ pc' = "raster"
    /\ UNCHANGED <<width, height, data, mode, noiseReduction, luma,
                   processedLuma, localMean, blur1, blur2, output, passes,
                   isDilate, safePasses, p, bufA, bufB>>

\* Lines 381-389: the intermediate stencil raster.
WriteRaster ==
    /\ pc = "raster"
    /\ data' = [i \in Pixels(width, height) |->
                  LET val == ToUint8Clamped(finalMap[i])
                  IN <<val, val, val, 255>>]
    /\ pc' = "done"
    /\ UNCHANGED <<width, height, mode, noiseReduction, luma, processedLuma,
                   localMean, blur1, blur2, output, passes, isDilate,
                   safePasses, p, bufA, bufB, finalMap>>

Next ==
    /\ \/ DrawSource
       \/ RealismTone
       \/ RealismSharpen
       \/ ExtractLuma
       \/ ApplyDetailFilter
       \/ ComputeLocalMean
       \/ ComputeDoGBlurs
       \/ ThresholdSolid
       \/ ThresholdHollow
       \/ MorphSetup
       \/ MorphologyPass
       \/ MorphologyEnd
       \/ WriteRaster
    /\ UNCHANGED <<blurVars, inputVars, pageVars, appVars>>

Spec == Init /\ [][Next]_vars

----------------------------------------------------------------------------
(* MirrorSpec: the stencil path run with and without settings.isMirrored on *)
(* rasters that include one narrower than the larger blur radius of the    *)
(* HOLLOW mode and tall enough for that blur to give numbers.              *)

NarrowW == 2

NarrowH == 5

MirrorSizes == {<<1, 1>>, <<NarrowW, NarrowH>>, <<MaxW, MaxH>>}

MirrorInit ==
    /\ BlurOff
    /\ PageOff
    /\ AppMounted
    /\ pc = "draw"
    /\ \E sz \in MirrorSizes :
          /\ width = sz[1]
          /\ height = sz[2]
          /\ \E dark \in DarkSets(sz[1], sz[2]) :
                img = GrayRaster(sz[1], sz[2], dark)
    /\ mode \in Modes
    /\ noiseReduction \in DetailLevels
    /\ build = "imageProcessor"
    /\ isMirrored \in BOOLEAN
    /\ contrast = Undefined
    /\ brightness = Undefined
    /\ saturation = Undefined
    /\ brilliance = Undefined
    /\ sharpness = Undefined
    /\ data = <<>>
    /\ luma = NoPlane
    /\ processedLuma = NoPlane
    /\ localMean = NoPlane
    /\ blur1 = NoPlane
    /\ blur2 = NoPlane
    /\ output = <<>>
    /\ passes = 0
    /\ isDilate = FALSE
    /\ safePasses = 0
    /\ p = 0
    /\ bufA = <<>>
    /\ bufB = <<>>
    /\ finalMap = <<>>

MirrorNext ==
    /\ \/ DrawSource
       \/ ExtractLuma
       \/ ApplyDetailFilter
       \/ ComputeLocalMean
       \/ ComputeDoGBlurs
       \/ ThresholdSolid
       \/ ThresholdHollow
       \/ MorphSetup
       \/ MorphologyPass
       \/ MorphologyEnd
       \/ WriteRaster
    /\ UNCHANGED <<blurVars, inputVars, pageVars, appVars>>

MirrorSpec == MirrorInit /\ [][MirrorNext]_vars

----------------------------------------------------------------------------
(* BlurSpec: one call of boxBlur on a plane of integer values *)

MaxBlurW == 3
MaxBlurH == 2
MaxRadius == 3
BlurLo == 40
BlurHi == 200

BlurPlanes(w, h) ==
    {[den |-> 1, v |-> [i \in 0..(w * h - 1) |-> Num(f[i])]] :
        f \in [0..(w * h - 1) -> {BlurLo, BlurHi}]}

BlurInit ==
    /\ bpc = "call"
    /\ bw \in 1..MaxBlurW
    /\ bh \in 1..MaxBlurH
    /\ bradius \in (0 - 1)..MaxRadius
    /\ srcRef = 1
    /\ outRef = 0
    /\ \E src \in BlurPlanes(bw, bh) : heap = (1 :> src)
    /\ PipeOff
    /\ PageOff
    /\ AppMounted

CallBoxBlur ==
    /\ bpc = "call"
    /\ LET fresh == Cardinality(DOMAIN heap) + 1
           ret == BoxBlurRef(srcRef, bradius, fresh)
       IN /\ outRef' = ret
          /\ heap' = (ret :> BoxBlur(heap[srcRef], bw, bh, bradius)) @@ heap
    /\ bpc' = "ret"
    /\ UNCHANGED <<bw, bh, bradius, srcRef>>

BlurNext ==
    CallBoxBlur /\ UNCHANGED <<pipeVars, inputVars, pageVars, appVars>>

BlurSpec == BlurInit /\ [][BlurNext]_vars

----------------------------------------------------------------------------
(* PageSpec: one call of generateStencil seen from the page: the working   *)
(* size, the two canvas contexts and finishProcessing.  The pixels are     *)
(* left out; a length is a fraction, or NaN.                               *)

MAX_DIM == 2500
DPI == 300
A4_WIDTH == 2480
A4_HEIGHT == 3508

\* The working size scaled by the width ratio alone.
ResizedByWidth(nw, nh) ==
    IF nw > MAX_DIM \/ nh > MAX_DIM
    THEN LET ratio == Frac(MAX_DIM, nw)
         IN <<FRound(FMul(FInt(nw), ratio)), FRound(FMul(FInt(nh), ratio))>>
    ELSE <<nw, nh>>

\* Lines 111-118: the working size <<w, h>> of a source of nw x nh pixels.
Resized(nw, nh) ==
    IF nw > MAX_DIM \/ nh > MAX_DIM
    THEN LET ratio == FMin(Frac(MAX_DIM, nw), Frac(MAX_DIM, nh))
         IN <<FRound(FMul(FInt(nw), ratio)), FRound(FMul(FInt(nh), ratio))>>
    ELSE <<nw, nh>>

\* The operations on numbers that may be NaN: NaN when an operand is NaN.
QAdd(a, b) == IF a = NaN \/ b = NaN THEN NaN ELSE FAdd(a, b)

QSub(a, b) == IF a = NaN \/ b = NaN THEN NaN ELSE FSub(a, b)

QMul(a, b) == IF a = NaN \/ b = NaN THEN NaN ELSE FMul(a, b)

QDiv(a, b) == IF a = NaN \/ b = NaN THEN NaN ELSE FDiv(a, b)

\* The arguments dx, dy, dw, dh of a drawImage call centred on (cx, cy).
CentredRect(cx, cy, drawW, drawH) ==
    [x |-> QSub(cx, QDiv(drawW, FInt(2))),
     y |-> QSub(cy, QDiv(drawH, FInt(2))),
     w |-> drawW,
     h |-> drawH]

\* The single-mode rectangle fitted to the width only.
SingleFitWidthOnly(ww, hh) ==
    LET aspect == Frac(ww, hh)
        availW == A4_WIDTH - 100 * 2
    IN CentredRect(Frac(A4_WIDTH, 2), Frac(A4_HEIGHT, 2),
                   FInt(availW), FDiv(FInt(availW), aspect))

\* Lines 483-495: the drawImage arguments of the single mode.
SingleFit(ww, hh) ==
    LET aspect == Frac(ww, hh)
        padding == 100
        availW == A4_WIDTH - padding * 2
        availH == A4_HEIGHT - padding * 2
        wide == FLess(FInt(availH), FDiv(FInt(availW), aspect))
        drawW == IF wide THEN FMul(FInt(availH), aspect) ELSE FInt(availW)
        drawH == IF wide THEN FInt(availH) ELSE FDiv(FInt(availW), aspect)
    IN [x |-> FDiv(FSub(FInt(A4_WIDTH), drawW), FInt(2)),
        y |-> FDiv(FSub(FInt(A4_HEIGHT), drawH), FInt(2)),
        w |-> drawW,
        h |-> drawH]

\* Line 414: settings.variantCount || 9 (undefined and 0 are falsy).
Count(vc) == IF vc = Undefined \/ vc[1] = 0 THEN 9 ELSE vc[1]

\* Lines 417-430.
Cols(cnt) == IF cnt = 3 THEN 1 ELSE IF cnt = 6 THEN 2 ELSE 3

Rows(cnt) == 3

\* The size of variant i interpolated over cnt steps instead of cnt - 1.
TargetSizeInchesByCount(minS, maxS, cnt, i) ==
    FAdd(minS, FMul(FDiv(FSub(maxS, minS), FInt(cnt)), FInt(i)))

\* Line 447.  With cnt = 1 the quotient by cnt - 1 is an infinity or NaN and
\* its product by i = 0, the only index of the loop, is NaN.
TargetSizeInches(minS, maxS, cnt, i) ==
    IF cnt = 1 THEN NaN
    ELSE FAdd(minS, FMul(FDiv(FSub(maxS, minS), FInt(cnt - 1)), FInt(i)))

\* Lines 448-466: the drawImage arguments of variant i.
VariantRect(ww, hh, cnt, minS, maxS, i) ==
    LET aspect == Frac(ww, hh)
        targetLongestSide ==
            QMul(TargetSizeInches(minS, maxS, cnt, i), FInt(DPI))
        drawW == IF ww >= hh THEN targetLongestSide
                 ELSE QMul(targetLongestSide, aspect)
        drawH == IF ww >= hh THEN QDiv(targetLongestSide, aspect)
                 ELSE targetLongestSide
        cellW == Frac(A4_WIDTH, Cols(cnt))
        cellH == Frac(A4_HEIGHT, Rows(cnt))
        col == i % Cols(cnt)
        row == i \div Cols(cnt)
        cx == FAdd(FMul(FInt(col), cellW), FDiv(cellW, FInt(2)))
        cy == FAdd(FMul(FInt(row), cellH), FDiv(cellH, FInt(2)))
    IN CentredRect(cx, cy, drawW, drawH)

\* Number.prototype.toFixed(1) of a size, followed by the inch mark.
ToFixed1(size) ==
    IF size = NaN THEN "NaN\""
    ELSE LET tenths == FRound(FMul(FInt(10), size))
         IN ToString(tenths \div 10) \o "." \o ToString(tenths % 10) \o "\""

\* Lines 469-478: the fillText arguments of variant i.
VariantLabel(ww, hh, cnt, minS, maxS, i) ==
    LET rect == VariantRect(ww, hh, cnt, minS, maxS, i)
        size == TargetSizeInches(minS, maxS, cnt, i)
        cellW == Frac(A4_WIDTH, Cols(cnt))
        cellH == Frac(A4_HEIGHT, Rows(cnt))
        col == i % Cols(cnt)
        row == i \div Cols(cnt)
        cx == FAdd(FMul(FInt(col), cellW), FDiv(cellW, FInt(2)))
        cellBottom == FMul(FInt(row + 1), cellH)
        labelY == QAdd(QAdd(rect.y, rect.h), FInt(50))
    IN [text |-> ToFixed1(size),
        x |-> cx,
        y |-> IF labelY # NaN /\ FLess(labelY, cellBottom)
              THEN labelY
              ELSE FSub(cellBottom, FInt(20))]

\* The sizes of the source images: within the cap, at the cap, beyond it in
\* one or both dimensions, and thin ones.
NaturalSizes ==
    {<<1, 1>>, <<300, 200>>, <<200, 300>>, <<2280, 3308>>, <<1, 2500>>,
     <<2500, 1>>, <<2500, 2500>>, <<2501, 2500>>, <<2000, 2501>>,
     <<4000, 4000>>, <<5000, 3001>>, <<3000, 4501>>, <<6000, 1>>,
     <<7, 6000>>}

VariantCounts == {Undefined, <<0>>, <<1>>, <<3>>, <<4>>, <<6>>, <<9>>, <<12>>}

\* minSize and maxSize, in inches: the options run from 0.5 to 9 by halves.
SizePairs ==
    {<<FInt(1), FInt(3)>>, <<Frac(3, 2), Frac(7, 2)>>, <<FInt(2), FInt(2)>>,
     <<Frac(1, 2), FInt(9)>>, <<FInt(3), FInt(1)>>}

Returned(kind, ww, hh) == [kind |-> kind, w |-> ww, h |-> hh]

PageInit ==
    /\ BlurOff
    /\ PipeOff
    /\ AppMounted
    /\ gpc = "resize"
    /\ \E sz \in NaturalSizes :
          naturalWidth = sz[1] /\ naturalHeight = sz[2]
    /\ workW = 0
    /\ workH = 0
    /\ ctxAvailable \in BOOLEAN
    /\ finalCtxAvailable \in BOOLEAN
    /\ \/ /\ isMultipleSizes = FALSE
          /\ variantCount = <<9>>
          /\ minSize = Frac(3, 2)
          /\ maxSize = Frac(7, 2)
          /\ showDimensions = TRUE
       \/ /\ isMultipleSizes = TRUE
          /\ variantCount \in VariantCounts
          /\ \E pair \in SizePairs :
                minSize = pair[1] /\ maxSize = pair[2]
          /\ showDimensions \in BOOLEAN
    /\ count = 0
    /\ gridCols = 0
    /\ gridRows = 0
    /\ vi = 0
    /\ drawCalls = <<>>
    /\ labels = <<>>
    /\ returned = Returned("none", 0, 0)

\* Lines 110-118.
Resize ==
    /\ gpc = "resize"
    /\ workW' = Resized(naturalWidth, naturalHeight)[1]
    /\ workH' = Resized(naturalWidth, naturalHeight)[2]
    /\ gpc' = "context"
    /\ UNCHANGED <<count, gridCols, gridRows, vi, drawCalls, labels, returned>>

\* Lines 120-124: the working canvas and its context.
GetContext ==
    /\ gpc = "context"
    /\ IF ctxAvailable
       THEN gpc' = "pixels" /\ UNCHANGED returned
       ELSE gpc' = "done" /\ returned' = Returned("error", 0, 0)
    /\ UNCHANGED <<workW, workH, count, gridCols, gridRows, vi, drawCalls,
                   labels>>

\* Lines 126-390, the pixels left out: getImageData throws on an empty
\* rectangle; otherwise the canvas holds the processed raster.
ProcessPixels ==
    /\ gpc = "pixels"
    /\ IF workW = 0 \/ workH = 0
       THEN gpc' = "done" /\ returned' = Returned("error", 0, 0)
       ELSE gpc' = "compose" /\ UNCHANGED returned
    /\ UNCHANGED <<workW, workH, count, gridCols, gridRows, vi, drawCalls,
                   labels>>

\* Lines 400-404: without a context of the final canvas the working canvas
\* is returned as it is.
ReturnRaster ==
    /\ gpc = "compose"
    /\ ~finalCtxAvailable
    /\ returned' = Returned("raster", workW, workH)
    /\ gpc' = "done"
    /\ UNCHANGED <<workW, workH, count, gridCols, gridRows, vi, drawCalls,
                   labels>>

\* Lines 413-443: the layout of the multi-size branch.
LayoutGrid ==
    /\ gpc = "compose"
    /\ finalCtxAvailable
    /\ isMultipleSizes
    /\ count' = Count(variantCount)
    /\ gridCols' = Cols(Count(variantCount))
    /\ gridRows' = Rows(Count(variantCount))
    /\ vi' = 0
    /\ gpc' = "variant"
    /\ UNCHANGED <<workW, workH, drawCalls, labels, returned>>

\* Lines 445-479: one iteration of the loop over i.
DrawVariant ==
    /\ gpc = "variant"
    /\ vi < count
    /\ drawCalls' = Append(drawCalls,
                           VariantRect(workW, workH, count, minSize, maxSize,
                                       vi))
    /\ labels' = IF showDimensions
                 THEN Append(labels,
                             VariantLabel(workW, workH, count, minSize,
                                          maxSize, vi))
                 ELSE labels
    /\ vi' = vi + 1
    /\ UNCHANGED <<gpc, workW, workH, count, gridCols, gridRows, returned>>

\* Line 445: the loop is over.
EndVariants ==
    /\ gpc = "variant"
    /\ vi >= count
    /\ gpc' = "return"
    /\ UNCHANGED <<workW, workH, count, gridCols, gridRows, vi, drawCalls,
                   labels, returned>>

\* Lines 481-496: the single mode.
DrawSingle ==
    /\ gpc = "compose"
    /\ finalCtxAvailable
    /\ ~isMultipleSizes
    /\ drawCalls' = <<SingleFit(workW, workH)>>
    /\ gpc' = "return"
    /\ UNCHANGED <<workW, workH, count, gridCols, gridRows, vi, labels,
                   returned>>

\* Line 499.
ReturnPage ==
    /\ gpc = "return"
    /\ returned' = Returned("page", A4_WIDTH, A4_HEIGHT)
    /\ gpc' = "done"
    /\ UNCHANGED <<workW, workH, count, gridCols, gridRows, vi, drawCalls,
                   labels>>

PageNext ==
    /\ \/ Resize
       \/ GetContext
       \/ ProcessPixels
       \/ ReturnRaster
       \/ LayoutGrid
       \/ DrawVariant
       \/ EndVariants
       \/ DrawSingle
       \/ ReturnPage
    /\ UNCHANGED <<naturalWidth, naturalHeight, ctxAvailable,
                   finalCtxAvailable, isMultipleSizes, variantCount, minSize,
                   maxSize, showDimensions>>
    /\ UNCHANGED <<blurVars, pipeVars, inputVars, appVars>>

PageSpec == PageInit /\ [][PageNext]_vars

----------------------------------------------------------------------------
(* AppSpec: the component App of src/App.tsx: the image list, the settings, *)
(* the debounce timer and the calls of processImages in flight.  A handler *)
(* reads the state of the render it was created in: the timer callback     *)
(* keeps the images, the mode and the selection of the render in which     *)
(* updateSettingsAndProcess was called.  generateStencil is a function of  *)
(* the source and the settings; a task of processImages either yields its  *)
(* result or throws.  Time advances in steps of TickMs.                    *)

MaxUploads == 2

MaxRuns == 2

MaxChanges == 2

MaxFailures == 1

MaxToggles == 1

DEBOUNCE_MS == 300

TickMs == 150

\* The files the user uploads, in the order of their upload: "1.png", ...
Files == [k \in 1..MaxUploads |-> ToString(k) \o ".png"]

Thresholds == {223, 238}

\* The data URL generateStencil resolves with: a function of its inputs.
GenerateStencil(url, settings) == <<url, settings>>

\* The image handleFileUpload pushes for one file (lines 45-53).
NewImage(id, file) ==
    [id |-> id, originalUrl |-> file, processedUrl |-> NoUrl,
     settings |-> DEFAULT_SETTINGS, isProcessing |-> FALSE]

\* Array.prototype.some on the ids of a list.
HasId(list, id) == \E k \in 1..Len(list) : list[k].id = id

\* Array.prototype.find by id, for a list that holds the id.
FindById(list, id) ==
    list[CHOOSE k \in 1..Len(list) :
            /\ list[k].id = id
            /\ \A j \in 1..(k - 1) : list[j].id # id]

\* Array.prototype.filter(i => i.id !== id).
WithoutId(list, id) == SelectSeq(list, LAMBDA x : x.id # id)

\* images.filter(img => !img.processedUrl && !img.isProcessing), line 98.
Unprocessed(list) ==
    SelectSeq(list, LAMBDA x : x.processedUrl = NoUrl /\ ~x.isProcessing)

\* The update of line 69: the targets still in the list are processing.
MarkProcessing(prev, targetImages) ==
    [k \in 1..Len(prev) |->
        IF HasId(targetImages, prev[k].id)
        THEN [prev[k] EXCEPT !.isProcessing = TRUE]
        ELSE prev[k]]

\* What the task of target i returns (lines 76-88): the target with its
\* result, or, when loadImage or generateStencil threw, the target as it
\* was given, not processing.
TaskResultOfFirst(targetImages, i, settingsToUse, ok) ==
    IF ok
    THEN [targetImages[i] EXCEPT
            !.processedUrl = GenerateStencil(targetImages[1].originalUrl,
                                             settingsToUse),
            !.settings = settingsToUse,
            !.isProcessing = FALSE]
    ELSE [targetImages[i] EXCEPT !.isProcessing = FALSE]

TaskResult(targetImages, i, settingsToUse, ok) ==
    IF ok
    THEN [targetImages[i] EXCEPT
            !.processedUrl = GenerateStencil(targetImages[i].originalUrl,
                                             settingsToUse),
            !.settings = settingsToUse,
            !.isProcessing = FALSE]
    ELSE [targetImages[i] EXCEPT !.isProcessing = FALSE]

\* The update of lines 91-94: an image whose id has an update is replaced
\* by it, every other image is kept.
ApplyUpdatesAppending(prev, updated) ==
    [k \in 1..Len(prev) |->
        IF HasId(updated, prev[k].id) THEN FindById(updated, prev[k].id)
        ELSE prev[k]]
    \o SelectSeq(updated, LAMBDA u : ~HasId(prev, u.id))

ApplyUpdates(prev, updated) ==
    [k \in 1..Len(prev) |->
        IF HasId(updated, prev[k].id) THEN FindById(updated, prev[k].id)
        ELSE prev[k]]

\* A call of processImages awaiting Promise.all: its arguments, the results
\* of the tasks settled so far (<<>> for a pending one), the order in which
\* the tasks settled, which of them threw, and the targets as the list had
\* them when the call was made (<<>> for a target the list did not hold).
Run(targetImages, settingsToUse, list) ==
    [targetImages |-> targetImages, settingsToUse |-> settingsToUse,
     updated |-> [k \in 1..Len(targetImages) |-> <<>>],
     order |-> <<>>,
     threw |-> {},
     atStart |-> [k \in 1..Len(targetImages) |->
                    IF HasId(list, targetImages[k].id)
                    THEN <<FindById(list, targetImages[k].id)>>
                    ELSE <<>>]]

\* processImages up to its await (lines 68-75), called when the list is
\* list.
CallProcessImages(list, targetImages, settingsToUse) ==
    /\ Len(inFlight) < MaxRuns
    /\ images' = MarkProcessing(list, targetImages)
    /\ inFlight' = Append(inFlight, Run(targetImages, settingsToUse, list))

\* The effect of lines 97-103, run after a render that changed
\* images.length to that of list.
LengthEffect(list) ==
    IF Len(Unprocessed(list)) > 0
    THEN CallProcessImages(list, Unprocessed(list),
                           IF useGlobalSettings THEN globalSettings
                           ELSE DEFAULT_SETTINGS)
    ELSE images' = list /\ UNCHANGED inFlight

\* currentSettings (lines 30-32).
CurrentSettings ==
    IF useGlobalSettings THEN globalSettings
    ELSE IF HasId(images, selectedId)
         THEN FindById(images, selectedId).settings
         ELSE DEFAULT_SETTINGS

AppInit ==
    /\ BlurOff
    /\ PipeOff
    /\ PageOff
    /\ AppMounted

\* handleFileUpload with n files, and the effect that follows.  The user
\* picks files once.
HandleFileUpload ==
    /\ uploads = 0
    /\ \E n \in 1..MaxUploads :
        LET newImages == [k \in 1..n |->
                            NewImage(uploads + k, Files[uploads + k])]
        IN /\ LengthEffect(images \o newImages)
           /\ selectedId' = IF selectedId = NoId THEN newImages[1].id
                            ELSE selectedId
           /\ uploads' = uploads + n
           /\ lastDone' = <<>>
           /\ UNCHANGED <<globalSettings, useGlobalSettings,
                          processingTimeout, deleted, changes, sinceChange,
                          bursts, fires, started, submitted, startedWith,
                          failures, toggles,
                          everPerImage>>

\* The delete button of an image (line 253), and the effect that follows.
DeleteImage ==
    \E k \in 1..Len(images) :
        /\ LengthEffect(WithoutId(images, images[k].id))
        /\ selectedId' = IF selectedId = images[k].id THEN NoId
                         ELSE selectedId
        /\ deleted' = deleted \cup {images[k].id}
        /\ lastDone' = <<>>
        /\ UNCHANGED <<globalSettings, useGlobalSettings, processingTimeout,
                       uploads, changes, sinceChange, bursts, fires, started,
                       submitted, startedWith,
                       failures, toggles, everPerImage>>

\* A click on an image of the list (line 234).
SelectImage ==
    \E k \in 1..Len(images) :
        /\ selectedId # images[k].id
        /\ selectedId' = images[k].id
        /\ lastDone' = <<>>
        /\ UNCHANGED <<images, globalSettings, useGlobalSettings,
                       processingTimeout, inFlight, uploads, deleted, changes,
                       sinceChange, bursts, fires, started, submitted, startedWith,
                       failures, toggles, everPerImage>>

\* The switch between global and per-image settings (line 372).
ToggleGlobalSettings ==
    /\ Len(images) > 0
    /\ toggles < MaxToggles
    /\ useGlobalSettings' = ~useGlobalSettings
    /\ toggles' = toggles + 1
    /\ lastDone' = <<>>
    /\ UNCHANGED <<images, selectedId, globalSettings, processingTimeout,
                   inFlight, uploads, deleted, changes, sinceChange, bursts,
                   fires, started, submitted, startedWith, failures, everPerImage>>

\* The pending timer: the delay left and what the callback closes over.
TimerKeepingCallback(list, newSettings) ==
    IF processingTimeout # <<>>
    THEN [processingTimeout[1] EXCEPT !.left = DEBOUNCE_MS]
    ELSE [left |-> DEBOUNCE_MS, images |-> list, newSettings |-> newSettings,
          useGlobalSettings |-> useGlobalSettings, selectedId |-> selectedId]

Timer(list, newSettings) ==
    [left |-> DEBOUNCE_MS, images |-> list, newSettings |-> newSettings,
     useGlobalSettings |-> useGlobalSettings, selectedId |-> selectedId]

\* updateSettingsAndProcess up to setTimeout (lines 105-114), called by
\* handleSettingChange or applyPreset with one key of currentSettings
\* replaced.  The panel is rendered when the list is not empty (line 362).
UpdateSettingsAndProcess ==
    /\ Len(images) > 0
    /\ changes < MaxChanges
    /\ \E newSettings \in
            {[CurrentSettings EXCEPT !.threshold = t] : t \in Thresholds} :
          /\ globalSettings' = IF useGlobalSettings THEN newSettings
                               ELSE globalSettings
          /\ images' = IF ~useGlobalSettings /\ selectedId # NoId
                       THEN [k \in 1..Len(images) |->
                               IF images[k].id = selectedId
                               THEN [images[k] EXCEPT !.settings = newSettings]
                               ELSE images[k]]
                       ELSE images
          /\ processingTimeout' = <<Timer(images, newSettings)>>
          /\ submitted' = <<newSettings>>
    /\ changes' = changes + 1
    /\ sinceChange' = 0
    /\ bursts' = IF processingTimeout = <<>> THEN bursts + 1 ELSE bursts
    /\ everPerImage' = (everPerImage \/ ~useGlobalSettings)
    /\ lastDone' = <<>>
    /\ UNCHANGED <<selectedId, useGlobalSettings, inFlight, uploads, deleted,
                   fires, started, startedWith, failures, toggles>>

\* TickMs of time pass.
Tick ==
    /\ \/ sinceChange < DEBOUNCE_MS /\ changes > 0
       \/ processingTimeout # <<>> /\ processingTimeout[1].left > 0
    /\ sinceChange' = Min(DEBOUNCE_MS, sinceChange + TickMs)
    /\ processingTimeout' =
          IF processingTimeout = <<>> THEN <<>>
          ELSE <<[processingTimeout[1] EXCEPT
                     !.left = Max(0, @ - TickMs)]>>
    /\ lastDone' = <<>>
    /\ UNCHANGED <<images, selectedId, globalSettings, useGlobalSettings,
                   inFlight, uploads, deleted, changes, bursts, fires,
                   started, submitted, startedWith, failures, toggles, everPerImage>>

\* The timer callback (lines 114-121), run with the state it closed over.
\* The reference keeps the id of the fired timer, which clearTimeout then
\* ignores: a fired timer is no timer.
TimerFires ==
    /\ processingTimeout # <<>>
    /\ processingTimeout[1].left = 0
    /\ LET c == processingTimeout[1]
       IN IF c.useGlobalSettings
          THEN /\ CallProcessImages(images, c.images, c.newSettings)
               /\ started' = started + 1
               /\ startedWith' = <<inFlight'[Len(inFlight')].settingsToUse>>
          ELSE IF c.selectedId # NoId /\ HasId(c.images, c.selectedId)
          THEN /\ CallProcessImages(images,
                                    <<FindById(c.images, c.selectedId)>>,
                                    c.newSettings)
               /\ started' = started + 1
               /\ startedWith' = <<inFlight'[Len(inFlight')].settingsToUse>>
          ELSE UNCHANGED <<images, inFlight, started, startedWith>>
    /\ processingTimeout' = <<>>
    /\ fires' = fires + 1
    /\ lastDone' = <<>>
    /\ UNCHANGED <<selectedId, globalSettings, useGlobalSettings, uploads,
                   deleted, changes, sinceChange, bursts, submitted, failures,
                   toggles, everPerImage>>

\* The task of target i of the call r settles: it resolves (ok) or throws.
\* lastDone holds a completed call until the next step of the component.
\* When it is the last task of the call, Promise.all resolves and the call
\* applies its updates (lines 91-94).
SettleTask ==
    \E r \in 1..Len(inFlight) :
    \E i \in 1..Len(inFlight[r].targetImages) :
    \E ok \in BOOLEAN :
        /\ inFlight[r].updated[i] = <<>>
        /\ ok \/ failures < MaxFailures
        /\ LET run == inFlight[r]
               result == TaskResult(run.targetImages, i, run.settingsToUse,
                                    ok)
               settled == [run EXCEPT
                              !.updated[i] = <<result>>,
                              !.order = Append(@, i),
                              !.threw = IF ok THEN @ ELSE @ \cup {i}]
               updated == [k \in 1..Len(settled.updated) |->
                              settled.updated[k][1]]
           IN IF \A k \in 1..Len(settled.updated) : settled.updated[k] # <<>>
              THEN /\ images' = ApplyUpdates(images, updated)
                   /\ inFlight' = [k \in 1..(Len(inFlight) - 1) |->
                                     IF k < r THEN inFlight[k]
                                     ELSE inFlight[k + 1]]
                   /\ lastDone' = <<[run |-> settled, before |-> images,
                                      flying |-> Len(inFlight)]>>
              ELSE /\ inFlight' = [inFlight EXCEPT ![r] = settled]
                   /\ lastDone' = <<>>
                   /\ UNCHANGED images
        /\ failures' = IF ok THEN failures ELSE failures + 1
        /\ UNCHANGED <<selectedId, globalSettings, useGlobalSettings,
                       processingTimeout, uploads, deleted, changes,
                       sinceChange, bursts, fires, started, submitted,
                       startedWith, toggles, everPerImage>>

AppNext ==
    /\ \/ HandleFileUpload
       \/ DeleteImage
       \/ SelectImage
       \/ ToggleGlobalSettings
       \/ UpdateSettingsAndProcess
       \/ Tick
       \/ TimerFires
       \/ SettleTask
    /\ UNCHANGED <<blurVars, pipeVars, inputVars, pageVars>>

AppSpec == AppInit /\ [][AppNext]_vars

----------------------------------------------------------------------------
(* Claims about boxBlur, checked under BlurSpec *)

NearestIndex(k, n) == Max(0, Min(n - 1, k))

\* The separable mean with clamp-to-edge extension: the sum over the
\* (2 * radius + 1)-wide window of the row, out-of-range columns replaced by
\* the nearest column of the same row, then the same over the column.  The
\* sums are the numerators over windowSize * windowSize.
ClampToEdgeBlur(source, w, h, radius) ==
    LET S == (0 - radius)..radius
        Row(y, dxs) == [dx \in dxs |-> source.v[y * w + NearestIndex(dx, w)]]
        windowSize == 2 * radius + 1
        RowSum(x, y) == SumReads(Row(y, (x - radius)..(x + radius)),
                                 x - radius, 1, 0, 2 * radius)
        Col(x, dys) == [dy \in dys |-> RowSum(x, NearestIndex(dy, h))]
        ColSum(x, y) == SumReads(Col(x, (y - radius)..(y + radius)),
                                 y - radius, 1, 0, 2 * radius)
    IN [den |-> source.den * windowSize * windowSize,
        v |-> [i \in 0..(w * h - 1) |-> ColSum(i % w, i \div w)]]

\* C1: after boxBlur returns for a radius >= 1, every output value is the
\* separable clamp-to-edge mean of the input (no value of another row or from
\* outside the buffer contributes).
C1_ClampToEdge ==
    (bpc = "ret" /\ bradius >= 1)
        => heap[outRef] = ClampToEdgeBlur(heap[srcRef], bw, bh, bradius)

\* C2: after boxBlur returns for a radius < 1, the returned buffer is not the
\* input buffer, and it holds the input value at every index.
C2_CopyForSmallRadius ==
    (bpc = "ret" /\ bradius < 1)
        => /\ outRef # srcRef
           /\ DOMAIN heap[outRef].v = DOMAIN heap[srcRef].v
           /\ \A i \in DOMAIN heap[srcRef].v :
                 heap[outRef].v[i] = heap[srcRef].v[i]
           /\ heap[outRef].den = heap[srcRef].den

\* A call with radius < 1 on a plane of two different values has returned.
C2_Witness ==
    /\ bpc = "ret"
    /\ bradius < 1
    /\ \E i, j \in DOMAIN heap[srcRef].v :
          heap[srcRef].v[i] # heap[srcRef].v[j]

PlaneValues(plane) == {plane.v[i][1] : i \in DOMAIN plane.v}

\* C3: after boxBlur returns, the output has the length of the input, every
\* output value lies within [min(input), max(input)], and a constant input
\* gives the same constant output.
C3_RangePreserved ==
    (bpc = "ret")
        => LET src == heap[srcRef]
               out == heap[outRef]
               k == out.den \div src.den
           IN /\ DOMAIN out.v = DOMAIN src.v
              /\ \A i \in DOMAIN out.v :
                    /\ ~IsNaN(out.v[i])
                    /\ \A m \in PlaneValues(src) :
                          (\A n \in PlaneValues(src) : m <= n)
                              => k * m <= out.v[i][1]
                    /\ \A m \in PlaneValues(src) :
                          (\A n \in PlaneValues(src) : m >= n)
                              => out.v[i][1] <= k * m

----------------------------------------------------------------------------
(* Claims about the stencil path, checked under Spec *)

\* The binarization loop has run: output is the binarized map.
Binarized == mode # "REALISM" /\ pc \in {"morph", "pass", "raster", "done"}

\* Every pixel of the image has the same luma value.
UniformLuma == \A i \in DOMAIN luma.v : luma.v[i] = luma.v[0]

AllBlank(map) == \A i \in DOMAIN map : map[i] = 255

InkSet(map) == {i \in DOMAIN map : map[i] = 0}

\* C4: in SOLID mode the binarized map of an image of one luma value is
\* blank (255) at every pixel, whatever the threshold, the detail level and
\* the size.
C4_SolidUniformBlank ==
    (Binarized /\ mode = "SOLID" /\ UniformLuma) => AllBlank(output)

\* A SOLID run on an image of one luma value has been binarized, with a
\* detail filter and with a local mean that is a number at some pixel.
C4_Witness ==
    /\ Binarized
    /\ mode = "SOLID"
    /\ UniformLuma
    /\ noiseReduction # 0
    /\ \E i \in DOMAIN localMean.v : ~IsNaN(localMean.v[i])

\* The ink sets of the SOLID binarization of the state's planes, by threshold.
SolidInk ==
    TypedArray([t \in 0..MaxThreshold |->
        InkSet(AdaptiveThreshold(processedLuma, localMean, width, height, t))])

\* C5: in SOLID mode, for thresholds t1 <= t2 in [0,255], every pixel that is
\* ink at t1 is ink at t2.
C5_SolidMonotone ==
    (pc = "threshold" /\ mode = "SOLID")
        => LET ink == SolidInk
           IN \A t1 \in 0..MaxThreshold :
                 ink[t1] # {}
                     => \A t2 \in t1..MaxThreshold : ink[t1] \subseteq ink[t2]

\* A SOLID run is about to binarize planes on which some pixel is ink at
\* threshold 0 and some other pixel is ink at threshold 255 only.
C5_Witness ==
    /\ pc = "threshold"
    /\ mode = "SOLID"
    /\ LET ink == SolidInk
       IN /\ ink[0] # {}
          /\ ink[MaxThreshold] # ink[0]

\* C6: in HOLLOW mode, for an image of one luma value, blur1 - blur2 is 0 at
\* every pixel and the binarized map is blank (255) at every pixel, whatever
\* the threshold and the detail level.
C6_HollowUniformBlank ==
    (Binarized /\ mode = "HOLLOW" /\ UniformLuma)
        => /\ \A i \in DOMAIN output :
                 /\ ~IsNaN(blur1.v[i])
                 /\ ~IsNaN(blur2.v[i])
                 /\ blur1.v[i][1] * blur2.den = blur2.v[i][1] * blur1.den
           /\ AllBlank(output)

\* The buffers the morphology loop has written so far.
WrittenBuffers ==
    IF pc = "pass" THEN (IF p >= 1 THEN {bufA, bufB} ELSE {bufA})
    ELSE IF pc \in {"raster", "done"} THEN {finalMap}
    ELSE {}

IsBinary(map) == \A i \in DOMAIN map : map[i] \in {0, 255}

\* C7: every value of the map is 0 or 255 after binarization, after every
\* morphology pass and in the final map, and the raster written from it
\* holds 0 or 255 in its colour channels.
C7_BinaryMap ==
    Binarized
        => /\ IsBinary(output)
           /\ DOMAIN output = Pixels(width, height)
           /\ \A map \in WrittenBuffers :
                 IsBinary(map) /\ DOMAIN map = Pixels(width, height)
           /\ pc = "done"
                 => \A i \in DOMAIN data :
                       /\ data[i][1] \in {0, 255}
                       /\ data[i][1] = finalMap[i]
                       /\ data[i][2] = data[i][1]
                       /\ data[i][3] = data[i][1]

\* A map with ink and with blank pixels has gone through a second pass.
C7_Witness ==
    /\ pc = "pass"
    /\ p >= 2
    /\ InkSet(bufA) # {}
    /\ ~AllBlank(bufA)
    /\ bufA # output

\* C8: the loop runs min(|thickness|, 15) passes: for |thickness| > 15 the
\* final map is the final map of thickness 15 (dilation) or -15 (erosion).
C8_PassCap ==
    /\ pc = "pass" => p <= Min(passes, 15)
    /\ (pc \in {"raster", "done"} /\ passes > 15)
          => finalMap = Morphology(output, width, height,
                                   IF isDilate THEN 15 ELSE 0 - 15)

\* A dilation of thickness 20 has ended on a map that one more pass would
\* still change.
C8_Witness ==
    /\ pc = "raster"
    /\ passes = 20
    /\ isDilate
    /\ MorphPass(finalMap, width, height, TRUE) # finalMap

\* C9: when the binarized map has no ink pixel, the map is blank (255)
\* everywhere after every dilation pass and after every erosion pass.
C9_BlankStaysBlank ==
    (Binarized /\ AllBlank(output))
        => /\ \A map \in WrittenBuffers : AllBlank(map)
           /\ pc = "done" => \A i \in DOMAIN data : data[i][1] = 255

\* A blank map one pixel wide has gone through two dilation passes.
C9_Witness ==
    /\ pc = "pass"
    /\ AllBlank(output)
    /\ isDilate
    /\ p >= 2
    /\ width = 1
    /\ height > 1

MaxRoundTrip == 2

\* The pixels of the image next to pixel idx.
Neighbours(w, h, idx) ==
    (IF idx \div w > 0 THEN {idx - w} ELSE {})
        \cup (IF idx \div w < h - 1 THEN {idx + w} ELSE {})
        \cup (IF idx % w > 0 THEN {idx - 1} ELSE {})
        \cup (IF idx % w < w - 1 THEN {idx + 1} ELSE {})

\* The blank pixels of a map that have a neighbour and only ink neighbours.
Enclosed(map, w, h) ==
    {i \in Pixels(w, h) :
        /\ map[i] = 255
        /\ Neighbours(w, h, i) # {}
        /\ \A j \in Neighbours(w, h, i) : map[j] = 0}

\* k dilation passes, then k erosion passes.
RoundTrip(map, w, h, k) ==
    Morphology(Morphology(map, w, h, k), w, h, 0 - k)

\* C10: k dilation passes followed by k erosion passes do not give the map
\* back: a blank pixel whose neighbours are all ink comes out as ink, for
\* every k >= 1, while every ink pixel of the map stays ink.
C10_RoundTripNotInverse ==
    pc = "morph"
        => \A k \in 1..MaxRoundTrip :
              LET back == RoundTrip(output, width, height, k)
              IN /\ \A i \in InkSet(output) : back[i] = 0
                 /\ \A i \in Enclosed(output, width, height) : back[i] = 0

\* The binarized map has a blank pixel whose neighbours are all ink, and one
\* dilation pass followed by one erosion pass gives another map.
C10_Witness ==
    /\ pc = "morph"
    /\ Enclosed(output, width, height) # {}
    /\ RoundTrip(output, width, height, 1) # output

\* The buffer the last pass of the morphology loop read and the one it
\* wrote, once a pass has run.
PassRan == pc = "pass" /\ p >= 1

LastSrc == IF (p - 1) % 2 = 0 THEN bufA ELSE bufB

LastDst == IF (p - 1) % 2 = 0 THEN bufB ELSE bufA

HasInkNeighbour(map, idx) ==
    \E n \in Neighbours(width, height, idx) : map[n] = 0

HasBlankNeighbour(map, idx) ==
    \E n \in Neighbours(width, height, idx) : map[n] = 255

OnBorder(idx) ==
    \/ idx % width = 0
    \/ idx % width = width - 1
    \/ idx \div width = 0
    \/ idx \div width = height - 1

\* C19: a dilation pass makes a pixel ink exactly when it was ink or one of
\* its north, south, west, east neighbours inside the image was ink, and
\* blank otherwise: nothing outside the image counts as ink, an ink pixel
\* without ink neighbours stays ink, and a blank border pixel without ink
\* neighbours stays blank.
C19_DilationPass ==
    (PassRan /\ isDilate)
        => \A idx \in Pixels(width, height) :
              LastDst[idx]
                = IF LastSrc[idx] = 0 \/ HasInkNeighbour(LastSrc, idx)
                  THEN 0 ELSE 255

\* A dilation pass that kept an ink pixel without ink neighbours, turned a
\* blank pixel to ink and left a blank border pixel blank.
C19_Witness ==
    /\ PassRan
    /\ isDilate
    /\ \E idx \in Pixels(width, height) :
          /\ LastSrc[idx] = 0
          /\ ~HasInkNeighbour(LastSrc, idx)
          /\ LastDst[idx] = 0
    /\ \E idx \in Pixels(width, height) :
          LastSrc[idx] = 255 /\ LastDst[idx] = 0
    /\ \E idx \in Pixels(width, height) :
          OnBorder(idx) /\ LastSrc[idx] = 255 /\ LastDst[idx] = 255

\* The map with ink and blank exchanged.
Complement(map) == [i \in DOMAIN map |-> 255 - map[i]]

\* C20: an erosion pass leaves a pixel ink exactly when it was ink and every
\* north, south, west, east neighbour inside the image was ink (what lies
\* outside counts as ink); the pass is the complement of a dilation pass of
\* the complement; and a pass over the map that is all ink returns it.
C20_ErosionPass ==
    /\ (PassRan /\ ~isDilate)
         => /\ \A idx \in Pixels(width, height) :
                 LastDst[idx]
                   = IF LastSrc[idx] = 0 /\ ~HasBlankNeighbour(LastSrc, idx)
                     THEN 0 ELSE 255
            /\ LastDst
                 = Complement(MorphPass(Complement(LastSrc), width, height,
                                        TRUE))
    /\ (pc = "pass" /\ p = 0 /\ ~isDilate)
         => MorphPass(ZeroMap(width, height), width, height, FALSE)
              = ZeroMap(width, height)

\* An erosion pass that kept an ink pixel of the border, all of whose
\* neighbours were ink, and turned another ink pixel blank.
C20_Witness ==
    /\ PassRan
    /\ ~isDilate
    /\ \E idx \in Pixels(width, height) :
          /\ OnBorder(idx)
          /\ width > 1
          /\ LastSrc[idx] = 0
          /\ LastDst[idx] = 0
    /\ \E idx \in Pixels(width, height) :
          LastSrc[idx] = 0 /\ LastDst[idx] = 255

\* The single-pass operator applied n times to a map.
RECURSIVE NFold(_, _, _)
NFold(map, n, dilate) ==
    IF n = 0 THEN map
    ELSE MorphPass(NFold(map, n - 1, dilate), width, height, dilate)

\* C21: the morphology loop computes the single-pass operator composed
\* n = min(|thickness|, 15) times: pass 0 reads a copy of the binarized map,
\* every pass writes every pixel of the buffer the previous pass read from
\* what the previous pass wrote, the final map is the buffer the last pass
\* wrote, for odd and for even n, and the binarized map is as it was.
C21_LoopIsNFoldPass ==
    /\ (pc = "pass" /\ p = 0) => bufA = output
    /\ PassRan
         => /\ DOMAIN LastDst = Pixels(width, height)
            /\ LastDst = MorphPass(LastSrc, width, height, isDilate)
    /\ (pc = "raster" /\ mode # "REALISM" /\ passes > 0)
         => /\ safePasses = Min(passes, 15)
            /\ finalMap = NFold(output, safePasses, isDilate)
            /\ finalMap = IF safePasses % 2 = 0 THEN bufA ELSE bufB

\* A loop of two passes, or of the fifteen of the cap, that changed the map
\* has ended.
C21_Witness ==
    /\ pc = "raster"
    /\ passes > 0
    /\ safePasses \in {2, 15}
    /\ finalMap # output
    /\ bufA # bufB

\* The least integer not below a fraction.
FCeil(a) == 0 - FFloor(FNeg(a))

\* The radii of the difference of Gaussians as the formulas give them for a
\* detail level d >= 0: ceil(max(0.5, 0.8 d)) and ceil(2.5 max(0.5, 0.8 d)).
FormulaRadius1(d) == FCeil(FMax(<<1, 2>>, Frac(8 * d, 10)))

FormulaRadius2(d) == FCeil(FMul(<<5, 2>>, FMax(<<1, 2>>, Frac(8 * d, 10))))

\* The value of pixel i of a plane as a fraction, NaN kept.
PlaneValue(plane, i) ==
    IF IsNaN(plane.v[i]) THEN NaN ELSE Frac(plane.v[i][1], plane.den)

\* luma + (luma - blurred) * 0.5 * |d| clamped to [0, 255], for one pixel.
UnsharpValue(l, b, d) ==
    IF l = NaN \/ b = NaN THEN NaN
    ELSE FMax(FInt(0),
              FMin(FInt(255), FAdd(l, FMul(FSub(l, b), Frac(Abs(d), 2)))))

\* C22: the plane fed to the binarization is the luma for detail level 0;
\* boxBlur(luma, detailLevel) for a positive level in SOLID mode; the luma
\* itself for a positive level in HOLLOW mode, where the level only sets the
\* blur radii ceil(max(0.5, 0.8 d)) and ceil(2.5 max(0.5, 0.8 d)); and the
\* clamped unsharp mask luma + (luma - boxBlur(luma, 1)) * 0.5 * |d| for a
\* negative level in both modes.
C22_DetailFilterPerMode ==
    (mode # "REALISM" /\ pc \in {"blur", "threshold"})
        => /\ noiseReduction = 0 => processedLuma = luma
           /\ (noiseReduction > 0 /\ mode = "SOLID")
                => processedLuma
                     = BoxBlur(luma, width, height, noiseReduction)
           /\ (noiseReduction > 0 /\ mode = "HOLLOW")
                => /\ processedLuma = luma
                   /\ pc = "threshold"
                        => /\ blur1 = BoxBlur(luma, width, height,
                                              FormulaRadius1(noiseReduction))
                           /\ blur2 = BoxBlur(luma, width, height,
                                              FormulaRadius2(noiseReduction))
           /\ noiseReduction < 0
                => \A i \in Pixels(width, height) :
                      PlaneValue(processedLuma, i)
                        = UnsharpValue(PlaneValue(luma, i),
                                       PlaneValue(BoxBlur(luma, width, height,
                                                          1), i),
                                       noiseReduction)

\* The binarized map of a plane for the mode and detail level of the run and
\* a threshold t.
BinarizedMap(plane, t) ==
    IF mode = "SOLID"
    THEN AdaptiveThreshold(plane, BoxBlur(plane, width, height, 16),
                           width, height, t)
    ELSE DifferenceOfGaussians(
             BoxBlur(plane, width, height, Radius1(noiseReduction)),
             BoxBlur(plane, width, height, Radius2(noiseReduction)),
             width, height, t)

\* The detail-filtered plane of the run with the other value of isMirrored
\* on the same source and settings.
MirroredProcessedLuma ==
    DetailFilter(LumaPlane(DrawImage(img, width, height, mode, ~isMirrored,
                                     contrast, brightness)),
                 width, height, mode, noiseReduction)

\* The thickness of the settings, from passes and isDilate.
Thickness == IF isDilate THEN passes ELSE 0 - passes

\* C29: the stencil path commutes with mirroring: for every threshold that
\* gives the binarized map of the run, the run with the other value of
\* isMirrored on the same source and settings gives the horizontal flip of
\* that map, and the morphology of the flipped map is the flip of the final
\* map.
C29_MirrorCommutes ==
    /\ (mode # "REALISM" /\ pc = "morph")
          => \A t \in 0..MaxThreshold :
                BinarizedMap(processedLuma, t) = output
                => BinarizedMap(MirroredProcessedLuma, t)
                     = FlipHorizontal(output, width, height)
    /\ (mode # "REALISM" /\ pc = "raster")
          => Morphology(FlipHorizontal(output, width, height), width, height,
                        Thickness)
               = FlipHorizontal(finalMap, width, height)

----------------------------------------------------------------------------
(* Claims about the realism path, checked under Spec *)

\* The source image as the canvas shows it without any filter.
PlacedSource == IF isMirrored THEN FlipHorizontal(img, width, height) ELSE img

\* Every optional tone setting at its neutral value or undefined.
NeutralSettings ==
    /\ contrast \in {Undefined, <<100>>}
    /\ brightness \in {Undefined, <<100>>}
    /\ saturation \in {Undefined, <<100>>}
    /\ brilliance \in {Undefined, <<0>>}
    /\ sharpness \in {Undefined, <<0>>}

\* C11: in REALISM mode with saturation, contrast and brightness at 100 and
\* sharpness and brilliance at 0, or these fields undefined, the raster after
\* drawImage, after the tone loop and after the sharpen stage (the one handed
\* to the page composer) is the source image, mirrored when isMirrored, byte
\* for byte, in both generateStencil.
C11_NeutralRealismIsIdentity ==
    (mode = "REALISM" /\ NeutralSettings /\ pc \in {"tone", "sharpen", "done"})
        => data = PlacedSource

\* A neutral realism run that has returned, on a mirrored colour image.
C11_Witness ==
    /\ mode = "REALISM"
    /\ NeutralSettings
    /\ saturation = Undefined
    /\ pc = "done"
    /\ isMirrored
    /\ width = MaxW
    /\ img = ColourRaster(width, height)
    /\ data # img

\* The raster the realism path computes from the image and the tone settings.
RealismRaster ==
    SharpenStage(ToneStage(DrawImage(img, width, height, mode, isMirrored,
                                     contrast, brightness),
                           build, saturation, brilliance),
                 width, height, sharpness)

\* C12: a REALISM run never enters a stage of the stencil path: no luma
\* plane, no binarized map, no morphology buffer is ever written, whatever
\* the detail level, and no threshold or thickness is ever read; the raster
\* it hands to the page composer is the filtered, tone-mapped, sharpened
\* image with its colour channels, not a 0/255 map written over it.
C12_RealismBypassesStencil ==
    mode = "REALISM"
        => /\ pc \in {"draw", "tone", "sharpen", "done"}
           /\ luma = NoPlane
           /\ processedLuma = NoPlane
           /\ localMean = NoPlane
           /\ blur1 = NoPlane
           /\ blur2 = NoPlane
           /\ output = <<>>
           /\ bufA = <<>>
           /\ bufB = <<>>
           /\ finalMap = <<>>
           /\ pc = "done" => data = RealismRaster

\* A REALISM run at the highest detail level that has returned a raster
\* with a pixel that is not gray.
C12_Witness ==
    /\ mode = "REALISM"
    /\ noiseReduction = 5
    /\ pc = "done"
    /\ build = "imageProcessor"
    /\ saturation = <<150>>
    /\ sharpness = <<1>>
    /\ \E i \in DOMAIN data : data[i][1] # data[i][2]

\* The raster the sharpen stage of the run reads.
TonedRaster ==
    ToneStage(DrawImage(img, width, height, mode, isMirrored, contrast,
                        brightness),
              build, saturation, brilliance)

\* Every pixel of the raster has the colour of the first one.
UniformColour(raster) ==
    \A i \in DOMAIN raster :
        /\ raster[i][1] = raster[0][1]
        /\ raster[i][2] = raster[0][2]
        /\ raster[i][3] = raster[0][3]

KernelSum(k) == k[1] + k[2] + k[3] + k[4] + k[5] + k[6] + k[7] + k[8] + k[9]

\* C18: the sharpen kernel sums to 1 for every sharpness from 1 to 10, and
\* a realism run that sharpens a raster of one colour with such a sharpness
\* returns it with the R, G and B of every pixel, interior, border or corner,
\* as they were.
C18_SharpenKeepsUniform ==
    /\ \A s \in 1..10 : KernelSum(SharpenKernel(s)) = 1
    /\ (mode = "REALISM" /\ pc = "done" /\ sharpness # Undefined
          /\ sharpness[1] \in 1..10 /\ UniformColour(TonedRaster))
         => \A i \in DOMAIN data :
               /\ data[i][1] = TonedRaster[i][1]
               /\ data[i][2] = TonedRaster[i][2]
               /\ data[i][3] = TonedRaster[i][3]

----------------------------------------------------------------------------
(* Claims about the working size and the page, checked under PageSpec *)

\* The single mode has drawn its rectangle.
SingleDrawn == ~isMultipleSizes /\ Len(drawCalls) = 1

\* C13: in single mode the rectangle drawn for a raster of w x h pixels,
\* w >= 1 and h >= 1, has drawW / drawH = w / h, has its centre at the centre
\* of the 2480 x 3508 page, lies inside the page inset by 100 px on every
\* side (drawW <= 2280, drawH <= 3308), and spans that area in width or in
\* height; for a square raster drawW = drawH = 2280.
C13_SingleFitsInsetPage ==
    SingleDrawn
        => LET r == drawCalls[1]
           IN /\ workW >= 1 /\ workH >= 1
              /\ FMul(r.w, FInt(workH)) = FMul(r.h, FInt(workW))
              /\ FAdd(r.x, FDiv(r.w, FInt(2))) = FInt(1240)
              /\ FAdd(r.y, FDiv(r.h, FInt(2))) = FInt(1754)
              /\ FLeq(FInt(100), r.x)
              /\ FLeq(FInt(100), r.y)
              /\ FLeq(FAdd(r.x, r.w), FInt(2480 - 100))
              /\ FLeq(FAdd(r.y, r.h), FInt(3508 - 100))
              /\ FLeq(r.w, FInt(2280))
              /\ FLeq(r.h, FInt(3308))
              /\ r.w = FInt(2280) \/ r.h = FInt(3308)
              /\ workW = workH => r.w = FInt(2280) /\ r.h = FInt(2280)

\* A tall raster drawn at the full height of the inset area, narrower than it.
C13_Witness ==
    /\ SingleDrawn
    /\ workW < workH
    /\ drawCalls[1].h = FInt(3308)
    /\ FLess(drawCalls[1].w, FInt(2280))
    /\ returned.kind = "page"

\* The multi-size branch is running, or has run, for a count of 3, 6 or 9.
MultiOfThreeSixNine ==
    /\ isMultipleSizes
    /\ gpc \in {"variant", "return", "done"}
    /\ returned.kind \in {"none", "page"}
    /\ variantCount \in {<<3>>, <<6>>, <<9>>}

\* The longer side of a drawn rectangle of the working raster.
LongerSide(r) == IF workW >= workH THEN r.w ELSE r.h

\* The size in inches the interpolation gives to index i.
InterpolatedSize(i) ==
    FAdd(minSize,
         FDiv(FMul(FSub(maxSize, minSize), FInt(i)),
              FInt(variantCount[1] - 1)))

\* C14: in multi-size mode with variantCount 3, 6 or 9, the variant of index
\* i is drawn with its longer side at 300 px per inch of
\* minSize + (maxSize - minSize) * i / (variantCount - 1) inches and with the
\* aspect ratio of the raster; index 0 has minSize, the last index maxSize,
\* the sizes do not decrease with i when minSize <= maxSize, the labels show
\* the sizes (1.0, 2.0, 3.0 for variantCount 3, minSize 1, maxSize 3), and
\* with minSize = maxSize every variant has the same pixel size and label.
C14_InterpolatedSizes ==
    MultiOfThreeSixNine
        => /\ \A k \in 1..Len(drawCalls) :
                /\ LongerSide(drawCalls[k])
                     = FMul(InterpolatedSize(k - 1), FInt(300))
                /\ FMul(drawCalls[k].w, FInt(workH))
                     = FMul(drawCalls[k].h, FInt(workW))
                /\ k = 1 => LongerSide(drawCalls[k]) = FMul(minSize, FInt(300))
                /\ k = variantCount[1]
                     => LongerSide(drawCalls[k]) = FMul(maxSize, FInt(300))
                /\ (k > 1 /\ FLeq(minSize, maxSize))
                     => FLeq(LongerSide(drawCalls[k - 1]),
                             LongerSide(drawCalls[k]))
                /\ minSize = maxSize
                     => /\ drawCalls[k].w = drawCalls[1].w
                        /\ drawCalls[k].h = drawCalls[1].h
           /\ gpc # "variant" => Len(drawCalls) = variantCount[1]
           /\ showDimensions
                => /\ Len(labels) = Len(drawCalls)
                   /\ \A k \in 1..Len(labels) :
                        /\ labels[k].text = ToFixed1(InterpolatedSize(k - 1))
                        /\ minSize = maxSize
                             => labels[k].text = labels[1].text
                   /\ (variantCount = <<3>> /\ minSize = FInt(1)
                         /\ maxSize = FInt(3) /\ gpc # "variant")
                        => /\ labels[1].text = "1.0\""
                           /\ labels[2].text = "2.0\""
                           /\ labels[3].text = "3.0\""

\* Three labelled variants of 1, 2 and 3 inches drawn from a wide raster.
C14_Witness ==
    /\ MultiOfThreeSixNine
    /\ variantCount = <<3>>
    /\ minSize = FInt(1)
    /\ maxSize = FInt(3)
    /\ showDimensions
    /\ workW > workH
    /\ returned.kind = "page"
    /\ Len(drawCalls) = 3
    /\ drawCalls[2].w = FInt(600)
    /\ labels[3].text = "3.0\""

\* The multi-size branch has drawn all its variants.
MultiComposed == isMultipleSizes /\ gpc \in {"return", "done"}
                                 /\ returned.kind \in {"none", "page"}

\* C15: the grid has 1 column and 3 rows for variantCount 3, 2 columns and 3
\* rows for 6, 3 columns and 3 rows for 9; for every other variantCount
\* (undefined, 0, 1, 4, 12) the composer draws what it draws for 9: nine
\* variants in a grid of 3 x 3, with the sizes interpolated over nine steps.
C15_OtherCountsComposeAsNine ==
    MultiComposed
        => /\ variantCount = <<3>> => gridCols = 1 /\ gridRows = 3
           /\ variantCount = <<6>> => gridCols = 2 /\ gridRows = 3
           /\ variantCount = <<9>> => gridCols = 3 /\ gridRows = 3
           /\ variantCount \notin {<<3>>, <<6>>}
                => /\ gridCols = 3
                   /\ gridRows = 3
                   /\ Len(drawCalls) = 9
                   /\ \A k \in 1..Len(drawCalls) :
                        drawCalls[k] = VariantRect(workW, workH, 9, minSize,
                                                   maxSize, k - 1)

\* The working size the cap of 2500 gives to a source of nw x nh pixels: the
\* longer edge at the cap, the other one scaled with it and rounded.
CappedSize(nw, nh) ==
    IF nw >= nh
    THEN <<2500, FRound(Frac(nh * 2500, nw))>>
    ELSE <<FRound(Frac(nw * 2500, nh)), 2500>>

\* C16: once the size is set, and so before any pixel is processed, neither
\* working dimension exceeds 2500; a source within 2500 x 2500 keeps its
\* size; a larger one is scaled by min(2500 / w, 2500 / h), its longer edge
\* becoming exactly 2500 and its shorter edge the rounded scaled value; the
\* working size depends on the source size alone.
C16_WorkingSizeCapped ==
    gpc \notin {"off", "resize"}
        => /\ Max(workW, workH) <= 2500
           /\ (naturalWidth <= 2500 /\ naturalHeight <= 2500)
                => workW = naturalWidth /\ workH = naturalHeight
           /\ (naturalWidth > 2500 \/ naturalHeight > 2500)
                => /\ <<workW, workH>> = CappedSize(naturalWidth, naturalHeight)
                   /\ Max(workW, workH) = 2500

\* A source of 5000 x 3001 pixels composed at 2500 x 1501: the half of the
\* scaled shorter edge is rounded up.
C16_Witness ==
    /\ naturalWidth = 5000
    /\ naturalHeight = 3001
    /\ workW = 2500
    /\ workH = 1501
    /\ returned.kind = "page"

\* C17: every value generateStencil returns is the composed page of
\* 2480 x 3508 pixels, and a call that finds no 2D context for the final
\* canvas fails instead of returning a value.
C17_NoContextIsFatal ==
    /\ returned.kind \in {"none", "error", "page"}
    /\ returned.kind = "page"
         => returned.w = A4_WIDTH /\ returned.h = A4_HEIGHT
    /\ (gpc = "done" /\ ~finalCtxAvailable) => returned.kind = "error"

\* C28: for every source of at least 1 x 1 pixels, 6000 x 1 included, the
\* working width and the working height are both at least 1 once the size
\* is set.
C28_WorkingSizePositive ==
    (gpc \notin {"off", "resize"} /\ naturalWidth >= 1 /\ naturalHeight >= 1)
        => workW >= 1 /\ workH >= 1

\* The grid cell of the variant of index i: its left, top, right and bottom
\* edges on a page of 2480 x 3508 pixels divided in gridCols x gridRows.
Cell(i) ==
    LET cellW == Frac(2480, gridCols)
        cellH == Frac(3508, gridRows)
        col == i % gridCols
        row == i \div gridCols
    IN [left |-> FMul(FInt(col), cellW),
        top |-> FMul(FInt(row), cellH),
        right |-> FMul(FInt(col + 1), cellW),
        bottom |-> FMul(FInt(row + 1), cellH)]

\* Two drawn rectangles share no area.
Disjoint(a, b) ==
    \/ FLeq(FAdd(a.x, a.w), b.x)
    \/ FLeq(FAdd(b.x, b.w), a.x)
    \/ FLeq(FAdd(a.y, a.h), b.y)
    \/ FLeq(FAdd(b.y, b.h), a.y)

\* C30: in multi-size mode with variantCount 3, 6 or 9 and
\* 0.5 <= minSize <= maxSize <= 9, the variant of index i is centred on the
\* centre of its grid cell (column i mod cols, row floor(i / cols)) and lies
\* inside that cell, so that no two variants overlap and none extends past
\* the page.
C30_VariantsInsideCells ==
    (/\ MultiOfThreeSixNine
     /\ FLeq(<<1, 2>>, minSize)
     /\ FLeq(minSize, maxSize)
     /\ FLeq(maxSize, FInt(9)))
    => /\ \A k \in 1..Len(drawCalls) :
             LET r == drawCalls[k]
                 c == Cell(k - 1)
             IN /\ FAdd(r.x, FDiv(r.w, FInt(2)))
                     = FDiv(FAdd(c.left, c.right), FInt(2))
                /\ FAdd(r.y, FDiv(r.h, FInt(2)))
                     = FDiv(FAdd(c.top, c.bottom), FInt(2))
                /\ FLeq(c.left, r.x)
                /\ FLeq(c.top, r.y)
                /\ FLeq(FAdd(r.x, r.w), c.right)
                /\ FLeq(FAdd(r.y, r.h), c.bottom)
                /\ FLeq(FInt(0), r.x)
                /\ FLeq(FInt(0), r.y)
                /\ FLeq(FAdd(r.x, r.w), FInt(2480))
                /\ FLeq(FAdd(r.y, r.h), FInt(3508))
       /\ \A k \in 1..Len(drawCalls) :
             \A j \in 1..(k - 1) : Disjoint(drawCalls[j], drawCalls[k])

----------------------------------------------------------------------------
(* Claims about the image list of App, checked under AppSpec *)

\* The image of the list with the id of target i of a call.
Listed(run, i) == FindById(images, run.targetImages[i].id)

\* The image target i of a call was in the list when the call was made.
AtStart(run, i) == run.atStart[i][1]

\* C23: when a call of processImages completes, a target whose task threw
\* is not processing and has the processedUrl and the settings it had when
\* the call was made, every other target has its own result, the settings
\* of the call and is not processing, and the call started no other call.
C23_FailureAbortsOneImage ==
    lastDone # <<>> =>
        LET run == lastDone[1].run
        IN /\ Len(inFlight) = lastDone[1].flying - 1
           /\ \A i \in 1..Len(run.targetImages) :
                 (/\ HasId(images, run.targetImages[i].id)
                  /\ run.atStart[i] # <<>>)
                 => /\ ~Listed(run, i).isProcessing
                    /\ IF i \in run.threw
                       THEN /\ Listed(run, i).processedUrl
                                 = AtStart(run, i).processedUrl
                            /\ Listed(run, i).settings
                                 = AtStart(run, i).settings
                       ELSE /\ Listed(run, i).processedUrl
                                 = GenerateStencil(Listed(run, i).originalUrl,
                                                   run.settingsToUse)
                            /\ Listed(run, i).settings = run.settingsToUse

\* C24: the processedUrl of an image is the result computed from the
\* originalUrl of that image, in whatever order the tasks of a call settle,
\* and the completion of a call keeps the list, its order, and every image
\* that is not a target of the call as it was.
C24_ResultsJoinTheirImage ==
    /\ \A k \in 1..Len(images) :
          images[k].processedUrl # NoUrl
          => \E t \in Thresholds :
                images[k].processedUrl
                  = GenerateStencil(images[k].originalUrl, [threshold |-> t])
    /\ lastDone # <<>> =>
          /\ Len(images) = Len(lastDone[1].before)
          /\ \A k \in 1..Len(images) :
                /\ images[k].id = lastDone[1].before[k].id
                /\ images[k].originalUrl = lastDone[1].before[k].originalUrl
                /\ ~HasId(lastDone[1].run.targetImages, images[k].id)
                   => images[k] = lastDone[1].before[k]

\* A call for two images has completed, the task of the second image having
\* settled first, and both images hold their own result.
C24_Witness ==
    /\ lastDone # <<>>
    /\ lastDone[1].run.order = <<2, 1>>
    /\ lastDone[1].run.threw = {}
    /\ Len(images) = 2
    /\ images[1].originalUrl # images[2].originalUrl
    /\ \A k \in 1..2 :
          images[k].processedUrl
            = GenerateStencil(images[k].originalUrl,
                              lastDone[1].run.settingsToUse)

\* C25: in global-settings mode, when no call of processImages is in flight
\* and no timer is pending, every image has the settings submitted last
\* and the result computed with them, in whatever order overlapping calls
\* completed.  (Runs in which a task threw are left aside.)
C25_LatestSettingsWin ==
    (/\ toggles = 0
     /\ failures = 0
     /\ inFlight = <<>>
     /\ processingTimeout = <<>>)
    => \A k \in 1..Len(images) :
          /\ images[k].settings = globalSettings
          /\ images[k].processedUrl
               = GenerateStencil(images[k].originalUrl, globalSettings)

\* The settings updateSettingsAndProcess was last called with, when the
\* timer it armed is still pending.
Pending == processingTimeout[1]

ListedIds == {images[k].id : k \in 1..Len(images)}

\* C27: the list holds exactly the images uploaded and not deleted, each
\* once, whatever the interleaving of deletions and completions: a call that
\* completes replaces only images still in the list.
C27_DeletedStayDeleted ==
    /\ ListedIds = (1..uploads) \ deleted
    /\ Len(images) = Cardinality(ListedIds)
    /\ lastDone # <<>> => Len(images) = Len(lastDone[1].before)

\* A call has completed for an image that was in the list when the call was
\* made and was deleted while the call was in flight.
C27_Witness ==
    /\ lastDone # <<>>
    /\ \E i \in 1..Len(lastDone[1].run.targetImages) :
          /\ lastDone[1].run.atStart[i] # <<>>
          /\ lastDone[1].run.targetImages[i].id \in deleted
          /\ i \notin lastDone[1].run.threw
    /\ Len(images) = 1

====
